---- MODULE Spec2Model ----
(***************************************************************************)
(* Verification model of the ditto readers: the CYME reader's topology     *)
(* repair (parallel-branch serialisation, bus-voltage propagation,         *)
(* truncation, final validation), and the CIM reader's query reduction and *)
(* row mapping.                                                            *)
(*                                                                         *)
(* Names are sequences of tokens: the Python string "b1_primary" is the    *)
(* sequence <<"b1", "primary">>, so f-string suffixing is \o and string    *)
(* equality is sequence equality.                                          *)
(***************************************************************************)
EXTENDS Integers, Sequences, FiniteSets, TLC

VARIABLES
    pc,                  \* control point of the pass being run
    buses,               \* DistributionBus objects, by object identity (index)
    comps,               \* bus-connected components, in registry order
    groups,              \* parallel_components of serialize_parallel_branches
    gi,                  \* enumerate index i of the group loop
    sources,             \* DistributionVoltageSource components
    bus_queue,           \* assign_bus_voltages: the work queue (bus names)
    observed_buses,      \* assign_bus_voltages: names of the buses popped
    observed_components, \* assign_bus_voltages: names of the components seen
    crossings,           \* history: transformer terminals reached from a popped bus
    retaken,             \* history: buses popped after they had been popped
    late_assignments,    \* history: buses assigned a voltage after they were popped
    loads,               \* components with a single bus attribute
    request,             \* network_truncation: substation_names and feeder_names
    bus_set,             \* network_truncation: names from _collect_connected_buses
    trunc_dist_sys,      \* network_truncation: the system being built
    ti,                  \* network_truncation: index of the component-type loop
    nerrors,             \* per component: errors model_validate reports for it
    validation_errors,   \* Reader.validation_errors, a class attribute
    checked,             \* history: components _add_components has validated
    vi,                  \* index of the component-type loop of the re-validation
    stale,               \* history: len(validation_errors) when the run started
    run,                 \* number of the Reader run in this process
    datasets,            \* CIM read: the rows queried for each component type
    registry,            \* CIM read: (type, name) of the components of self.system
    ci,                  \* CIM read: index of the component_types loop
    failure,             \* CIM read: the exception that left Reader.read, if any
    lookups,             \* history: the registry lookups made while mapping
    graph,               \* CIM queries: the rows the SPARQL queries yield
    tables,              \* CIM queries: the data frame each query returned
    warnings,            \* CIM queries: the entities logged as skipped
    phase_values,        \* _sorted_phase_string: the argument
    phase_string,        \* _sorted_phase_string: the value returned
    wsystem,             \* CIM writer: self.system, buses and components
    woptions,            \* CIM writer: the arguments of Writer.write
    written,             \* CIM writer: the files and manifest of the first write
    rewritten,           \* CIM writer: the files and manifest of a second write
    read_names,          \* CIM reader on model.xml: the names read back, by kind
    conv_request,        \* convert_model: its arguments and the state of the input
    conv_log,            \* convert_model: what has been constructed, read and written
    conv_result,         \* convert_model: the error raised or the message returned
    read_opts,           \* CYME Reader.read: whether names were given and what raises
    pass_log,            \* CYME Reader.read: the passes begun and ended, in order
    winding_row,         \* _build_winding: the tap fields of the row
    winding              \* _build_winding: the tap fields of the WindingEquipment

serVars == <<groups, gi>>
voltVars == <<sources, bus_queue, observed_buses, observed_components, crossings,
              retaken, late_assignments>>
truncVars == <<loads, request, bus_set, trunc_dist_sys, ti>>
valVars == <<nerrors, validation_errors, checked, vi, stale, run>>
cimVars == <<datasets, registry, ci, failure, lookups>>
qryVars == <<graph, tables, warnings>>
phVars == <<phase_values, phase_string>>
wrVars == <<wsystem, woptions, written, rewritten, read_names>>

\* The variables of the helpers, the writer and the conversion entry point.
cvVars == <<conv_request, conv_log, conv_result>>
rdVars == <<read_opts, pass_log>>
wdVars == <<winding_row, winding>>
extVars == <<phVars, wrVars, cvVars, rdVars, wdVars>>

vars == <<pc, buses, comps, serVars, voltVars, truncVars, valVars, cimVars, qryVars,
          extVars>>

\* What each pass leaves alone.
serOthers == <<voltVars, truncVars, valVars, cimVars, qryVars, extVars>>
voltOthers == <<serVars, truncVars, valVars, cimVars, qryVars, extVars>>
truncOthers == <<serVars, voltVars, valVars, cimVars, qryVars, extVars>>
valOthers == <<serVars, voltVars, truncVars, cimVars, qryVars, extVars>>
cimOthers == <<buses, comps, serVars, voltVars, truncVars, valVars, qryVars, extVars>>
qryOthers == <<buses, comps, serVars, voltVars, truncVars, valVars, cimVars, extVars>>
coreVars == <<buses, comps, serVars, voltVars, truncVars, valVars, cimVars, qryVars>>
phOthers == <<coreVars, wrVars, cvVars, rdVars, wdVars>>
wrOthers == <<coreVars, phVars, cvVars, rdVars, wdVars>>
cvOthers == <<coreVars, phVars, wrVars, rdVars, wdVars>>
rdOthers == <<coreVars, phVars, wrVars, cvVars, wdVars>>
wdOthers == <<coreVars, phVars, wrVars, cvVars, rdVars>>

NoNames == [given |-> FALSE, names |-> {}]
EmptySystem == [buses |-> {}, comps |-> {}, loads |-> {}]
NoFailure == [raised |-> FALSE]

SerIdle == groups = <<>> /\ gi = 0
VoltIdle ==
    /\ sources = <<>>
    /\ bus_queue = {}
    /\ observed_buses = {}
    /\ observed_components = {}
    /\ crossings = {}
    /\ retaken = {}
    /\ late_assignments = {}
TruncIdle ==
    /\ loads = <<>>
    /\ request = [substation_names |-> NoNames, feeder_names |-> NoNames]
    /\ bus_set = {}
    /\ trunc_dist_sys = EmptySystem
    /\ ti = 0
ValIdle ==
    /\ nerrors = <<>>
    /\ validation_errors = <<>>
    /\ checked = {}
    /\ vi = 0
    /\ stale = 0
    /\ run = 1
CimIdle ==
    /\ datasets = <<>>
    /\ registry = {}
    /\ ci = 0
    /\ failure = NoFailure
    /\ lookups = {}
QryIdle ==
    /\ graph = <<>>
    /\ tables = <<>>
    /\ warnings = {}
CoreIdle ==
    /\ buses = <<>>
    /\ comps = <<>>
    /\ SerIdle
    /\ VoltIdle
    /\ TruncIdle
    /\ ValIdle
    /\ CimIdle
    /\ QryIdle
PhIdle == phase_values = <<>> /\ phase_string = [none |-> TRUE, text |-> <<>>]
NothingWritten == [files |-> <<>>, manifest |-> <<>>, raised |-> FALSE]
WrIdle ==
    /\ wsystem = <<>>
    /\ read_names = <<>>
    /\ woptions = <<>>
    /\ written = NothingWritten
    /\ rewritten = NothingWritten
NoResult == [raised |-> FALSE, message |-> <<>>]
CvIdle == conv_request = <<>> /\ conv_log = <<>> /\ conv_result = NoResult
RdIdle == read_opts = <<>> /\ pass_log = <<>>
WdIdle == winding_row = <<>> /\ winding = <<>>
ExtIdle == PhIdle /\ WrIdle /\ CvIdle /\ RdIdle /\ WdIdle

----------------------------------------------------------------------------
(* Bounds of the model.                                                    *)
MaxComps == 3
NumBuses == 3

----------------------------------------------------------------------------
(* Component kinds (Python class names).                                   *)
Branch == "MatrixImpedanceBranch"
Switch == "MatrixImpedanceSwitch"
Xfmr == "DistributionTransformer"

EdgeKinds == {Branch, Switch, Xfmr}

Digits == <<"0", "1", "2", "3", "4", "5", "6", "7", "8", "9">>

\* str(n) of an f-string, for the small indices the passes produce.
Str(n) == Digits[n + 1]

BusIds0 == 1..NumBuses
BusNames0 == <<"b1", "b2", "b3", "b4", "b5">>
CompNames0 == {<<"x">>, <<"y">>}

\* DistributionBusMapper.map_rated_voltage: the placeholder 12.47 kV, in volts.
PlaceholderVoltage == 12470

\* DistributionBusMapper.parse: a bus as constructed by the CYME bus mapper.
NewBus(nm, fd, ss) ==
    [name |-> nm, rated_voltage |-> PlaceholderVoltage, voltage_type |-> "LL",
     feeder |-> fd, substation |-> ss]

SeqsUpTo(S, n) == UNION {[1..k -> S] : k \in 0..n}

Range(s) == {s[k] : k \in DOMAIN s}

RECURSIVE SetToSortedSeq(_)
SetToSortedSeq(S) ==
    IF S = {} THEN <<>>
    ELSE LET m == CHOOSE x \in S : \A y \in S : x <= y
         IN <<m>> \o SetToSortedSeq(S \ {m})

IdxSeq(s) == [k \in 1..Len(s) |-> k]

----------------------------------------------------------------------------
(* The canonical system: buses and the components that reference them.    *)

\* A two-terminal component; windings is empty unless kind = Xfmr.
Comp(kd, nm, b0, b1, wd) ==
    [kind |-> kd, name |-> nm, buses |-> <<b0, b1>>, windings |-> wd]

\* system.copy_component(bus, name=nm, attach=True): every field but the name.
CopyBus(bs, b, nm) == Append(bs, [bs[b] EXCEPT !.name = nm])

\* comp.buses[k] = b  (k is the Python index, 0 or 1)
SetBus(cs, c, k, b) == [cs EXCEPT ![c].buses[k + 1] = b]

----------------------------------------------------------------------------
(* Reader._get_parallel_components                                         *)

\* edge_pair = tuple(sorted((u, v))) over the bus names of an edge of G.
EdgePair(cs, bs, c) == {bs[cs[c].buses[1]].name, bs[cs[c].buses[2]].name}

\* edges[edge_pair]: the components of one bus pair, in edge-key order.
EdgeKeys(cs, bs, p) == SelectSeq(IdxSeq(cs), LAMBDA c : EdgePair(cs, bs, c) = p)

\* parallel_edges: the bus pairs bridged by more than one distinct type.
ParallelEdges(cs, bs) ==
    {p \in {EdgePair(cs, bs, c) : c \in DOMAIN cs} :
        Cardinality({cs[c].kind : c \in Range(EdgeKeys(cs, bs, p))}) > 1}

\* parallel_components: one list of components per parallel bus pair.
GetParallelComponents(cs, bs) ==
    LET firsts == {EdgeKeys(cs, bs, p)[1] : p \in ParallelEdges(cs, bs)}
        order == SetToSortedSeq(firsts)
    IN [n \in DOMAIN order |-> EdgeKeys(cs, bs, EdgePair(cs, bs, order[n]))]

----------------------------------------------------------------------------
(* Reader._sort_parallel_components                                        *)

\* new_name = f"{comp.name}_{seen_names[comp.name]}" when the name collides
\* with a sibling of the group, else the name is kept.
RenamedName(cs, g, pos) ==
    LET nm == cs[g[pos]].name
        count == Cardinality({q \in DOMAIN g : cs[g[q]].name = nm})
        seen == Cardinality({q \in 1..(pos - 1) : cs[g[q]].name = nm})
    IN IF count > 1 THEN nm \o <<Str(seen)>> ELSE nm

\* The registry after the renaming loop (copy under the new name, remove the
\* old component): the group's components carry their new names.
RenameGroup(cs, g) ==
    [c \in DOMAIN cs |->
        IF \E q \in DOMAIN g : g[q] = c
        THEN [cs[c] EXCEPT !.name =
                 RenamedName(cs, g, CHOOSE q \in DOMAIN g : g[q] = c)]
        ELSE cs[c]]

Transformers(cs, g) == SelectSeq(g, LAMBDA c : cs[c].kind = Xfmr)
NonTransformers(cs, g) == SelectSeq(g, LAMBDA c : cs[c].kind # Xfmr)

----------------------------------------------------------------------------
(* Reader.serialize_parallel_branches, the body of the group loop.  The    *)
(* loop index j below is the Python index plus one.                        *)

\* for j, comp in enumerate(non_transformers), the transformer branch.
RECURSIVE ChainBeforeXfmr(_, _, _, _, _, _)
ChainBeforeXfmr(cs, bs, nt, j, i, primary) ==
    IF j > Len(nt) THEN [comps |-> cs, buses |-> bs]
    ELSE
      LET c == nt[j]
          m == Len(nt)
      IN IF j = 1
         THEN IF m = 1
              THEN ChainBeforeXfmr(SetBus(cs, c, 1, primary), bs, nt, j + 1, i, primary)
              ELSE LET nxt == cs[nt[j + 1]]
                       bs2 == CopyBus(bs, nxt.buses[2], nxt.name \o <<Str(j - 1), Str(i)>>)
                       cs2 == SetBus(SetBus(cs, c, 0, Len(bs2)), c, 1, primary)
                   IN ChainBeforeXfmr(cs2, bs2, nt, j + 1, i, primary)
         ELSE IF j < m
              THEN LET nxt == cs[nt[j + 1]]
                       cs1 == SetBus(cs, c, 1, cs[nt[j - 1]].buses[1])
                       bs2 == CopyBus(bs, nxt.buses[2], nxt.name \o <<Str(j - 1), Str(i)>>)
                       cs2 == SetBus(cs1, c, 0, Len(bs2))
                   IN ChainBeforeXfmr(cs2, bs2, nt, j + 1, i, primary)
              ELSE ChainBeforeXfmr(SetBus(cs, c, 1, cs[nt[j - 1]].buses[1]),
                                   bs, nt, j + 1, i, primary)

\* for j, comp in enumerate(transformers): both terminals are re-pointed.
RECURSIVE AttachXfmrs(_, _, _, _, _)
AttachXfmrs(cs, tr, j, primary, secondary) ==
    IF j > Len(tr) THEN cs
    ELSE AttachXfmrs(SetBus(SetBus(cs, tr[j], 0, primary), tr[j], 1, secondary),
                     tr, j + 1, primary, secondary)

\* for j, comp in enumerate(non_transformers[:-1]), the branch without
\* transformers.
RECURSIVE ChainSeries(_, _, _, _, _)
ChainSeries(cs, bs, nt, j, i) ==
    IF j > Len(nt) - 1 THEN [comps |-> cs, buses |-> bs]
    ELSE
      LET c == nt[j]
          old == cs[c].buses[2]
          bs2 == CopyBus(bs, old, bs[old].name \o <<Str(j - 1), Str(i)>>)
          cs2 == SetBus(SetBus(cs, c, 1, Len(bs2)), nt[j + 1], 0, Len(bs2))
      IN ChainSeries(cs2, bs2, nt, j + 1, i)

\* One iteration of "for i, comps in enumerate(parallel_components)".
SerializeOne(cs0, bs, g, i) ==
    LET cs == RenameGroup(cs0, g)
        tr == Transformers(cs, g)
        nt == NonTransformers(cs, g)
    IN IF tr # <<>>
       THEN LET t0 == cs[tr[1]]
                bs1 == CopyBus(bs, t0.buses[1], bs[t0.buses[1]].name \o <<"primary">>)
                primary == Len(bs1)
                secondary == t0.buses[2]
                r == ChainBeforeXfmr(cs, bs1, nt, 1, i, primary)
            IN [comps |-> AttachXfmrs(r.comps, tr, 1, primary, secondary),
                buses |-> r.buses]
       ELSE ChainSeries(cs, bs, nt, 1, i)

----------------------------------------------------------------------------
(* Specification SpecSerialize: Reader.serialize_parallel_branches run on  *)
(* a freshly built system.                                                 *)

InitialBuses == [b \in BusIds0 |-> NewBus(<<BusNames0[b]>>, "none", "none")]

EdgeOptions ==
    {Comp(kd, nm, b0, b1, <<>>) :
        kd \in EdgeKinds, nm \in CompNames0, b0 \in BusIds0, b1 \in BusIds0}

\* The registry keys components by (type, name) and every edge joins two
\* different buses.
WellFormedComps(cs) ==
    /\ \A c \in DOMAIN cs : cs[c].buses[1] # cs[c].buses[2]
    /\ \A c, d \in DOMAIN cs :
          (c # d) => (cs[c].kind # cs[d].kind \/ cs[c].name # cs[d].name)

SerInit ==
    /\ pc = "built"
    /\ buses = InitialBuses
    /\ comps \in {cs \in SeqsUpTo(EdgeOptions, MaxComps) : WellFormedComps(cs)}
    /\ SerIdle
    /\ VoltIdle
    /\ TruncIdle
    /\ ValIdle
    /\ CimIdle
    /\ QryIdle
    /\ ExtIdle

\* parallel_components = self._get_parallel_components()
GetParallel ==
    /\ pc = "built"
    /\ groups' = GetParallelComponents(comps, buses)
    /\ gi' = 0
    /\ pc' = "serializing"
    /\ UNCHANGED <<buses, comps, serOthers>>

\* One pass of the loop body for group index i = gi.
SerializeGroup ==
    /\ pc = "serializing"
    /\ gi < Len(groups)
    /\ LET r == SerializeOne(comps, buses, groups[gi + 1], gi)
       IN /\ comps' = r.comps
          /\ buses' = r.buses
    /\ gi' = gi + 1
    /\ UNCHANGED <<pc, groups, serOthers>>

\* The group loop is exhausted: the pass returns.
SerializeDone ==
    /\ pc = "serializing"
    /\ gi = Len(groups)
    /\ pc' = "serialized"
    /\ UNCHANGED <<buses, comps, groups, gi, serOthers>>

SerNext == GetParallel \/ SerializeGroup \/ SerializeDone

SpecSerialize == SerInit /\ [][SerNext]_vars

\* C1: after serialize_parallel_branches has run, no two components of
\* different kinds connect the same unordered pair of buses.
NoMixedKindPairAfterSerialize ==
    (pc = "serialized") =>
        \A c, d \in DOMAIN comps :
            (EdgePair(comps, buses, c) = EdgePair(comps, buses, d))
                => (comps[c].kind = comps[d].kind)

\* C4: after serialize_parallel_branches completes, every unordered pair of
\* buses is bridged by at most one component.
AtMostOneComponentPerPairAfterSerialize ==
    (pc = "serialized") =>
        \A c, d \in DOMAIN comps :
            (EdgePair(comps, buses, c) = EdgePair(comps, buses, d)) => (c = d)

----------------------------------------------------------------------------
(* Reader.assign_bus_voltages                                              *)

\* vsource.equipment.sources[0].voltage * 1.732 (voltages are in volts and
\* the phase voltages used are multiples of 250, so the product is exact).
ScaleLineToLine(v) == (v * 1732) \div 1000

\* _start_queue_w_voltage_sources, the loop over the voltage sources up to
\* the first single-phase one: "vsource.equipment[0]" subscripts the
\* equipment object itself, which raises TypeError.
RECURSIVE StartQueue(_, _, _, _)
StartQueue(bs, srcs, k, queue) ==
    IF k > Len(srcs) THEN [buses |-> bs, queue |-> queue, raised |-> FALSE]
    ELSE IF srcs[k].nphases > 1
         THEN StartQueue(
                  [bs EXCEPT ![srcs[k].bus].rated_voltage =
                                 ScaleLineToLine(srcs[k].phase_voltage)],
                  srcs, k + 1, queue \cup {bs[srcs[k].bus].name})
         ELSE [buses |-> bs, queue |-> queue, raised |-> TRUE]

\* _create_bus_obj_map: bus_obj_map[bus name], in registry order.
ConnObjs(cs, bs, nm) ==
    SelectSeq(IdxSeq(cs),
              LAMBDA c : \E t \in DOMAIN cs[c].buses : bs[cs[c].buses[t]].name = nm)

\* The transformer branch of the terminal loop: winding j is copied to the
\* bus only when its voltage differs from the voltage of the popped bus.
AssignFromWinding(bus, wd, j, current_voltage) ==
    IF j \in DOMAIN wd /\ wd[j].rated_voltage # current_voltage
    THEN [bus EXCEPT !.voltage_type = wd[j].voltage_type,
                     !.rated_voltage = wd[j].rated_voltage]
    ELSE bus

\* The other branch: the popped bus's voltage and type are copied.
AssignFromCurrent(bus, current_voltage, current_voltage_type) ==
    [bus EXCEPT !.rated_voltage = current_voltage,
                !.voltage_type = current_voltage_type]

\* "for j, bus in enumerate(obj.buses)" for one connected object.
RECURSIVE VisitTerminals(_, _, _, _, _, _, _)
VisitTerminals(st, obj, c, j, cur, cv, cvt) ==
    IF j > Len(obj.buses) THEN st
    ELSE
      LET b == obj.buses[j]
      IN IF st.buses[b].name = cur
         THEN VisitTerminals(st, obj, c, j + 1, cur, cv, cvt)
         ELSE
           LET nb == IF obj.kind = Xfmr
                     THEN AssignFromWinding(st.buses[b], obj.windings, j, cv)
                     ELSE AssignFromCurrent(st.buses[b], cv, cvt)
               st2 == [st EXCEPT
                         !.buses[b] = nb,
                         !.queue = IF nb.name \in st.observed_buses
                                   THEN @ ELSE @ \cup {nb.name},
                         !.crossings = IF obj.kind = Xfmr
                                       THEN @ \cup {<<c, j, b>>} ELSE @,
                         !.late = IF /\ nb.name \in st.observed_buses
                                     /\ (obj.kind = Xfmr =>
                                           /\ j \in DOMAIN obj.windings
                                           /\ obj.windings[j].rated_voltage # cv)
                                  THEN @ \cup {nb.name} ELSE @]
           IN VisitTerminals(st2, obj, c, j + 1, cur, cv, cvt)

\* The loop over the connected objects that visits the seen ones again.
RECURSIVE VisitObjsRevisiting(_, _, _, _, _, _, _)
VisitObjsRevisiting(st, cs, objs, k, cur, cv, cvt) ==
    IF k > Len(objs) THEN st
    ELSE VisitObjsRevisiting(
             VisitTerminals(
                 [st EXCEPT !.observed_components = @ \cup {cs[objs[k]].name}],
                 cs[objs[k]], objs[k], 1, cur, cv, cvt),
             cs, objs, k + 1, cur, cv, cvt)

\* "for obj in conn_objs": a component whose name was seen is skipped.
RECURSIVE VisitObjs(_, _, _, _, _, _, _)
VisitObjs(st, cs, objs, k, cur, cv, cvt) ==
    IF k > Len(objs) THEN st
    ELSE
      LET obj == cs[objs[k]]
      IN IF obj.name \in st.observed_components
         THEN VisitObjs(st, cs, objs, k + 1, cur, cv, cvt)
         ELSE VisitObjs(
                  VisitTerminals(
                      [st EXCEPT !.observed_components = @ \cup {obj.name}],
                      obj, objs[k], 1, cur, cv, cvt),
                  cs, objs, k + 1, cur, cv, cvt)

\* The body of the loop with a pop that leaves the name in the queue.
PopAndVisitKeeping(bs, cs, queue, obs_b, obs_c, cr, cur) ==
    LET b == CHOOSE x \in DOMAIN bs : bs[x].name = cur
        st0 == [buses |-> bs, queue |-> queue,
                observed_buses |-> obs_b \cup {cur},
                observed_components |-> obs_c, crossings |-> cr, late |-> {}]
    IN VisitObjs(st0, cs, ConnObjs(cs, bs, cur), 1, cur,
                 bs[b].rated_voltage, bs[b].voltage_type)

\* The body of "while bus_queue" for the popped bus name cur.
PopAndVisit(bs, cs, queue, obs_b, obs_c, cr, cur) ==
    LET b == CHOOSE x \in DOMAIN bs : bs[x].name = cur
        st0 == [buses |-> bs, queue |-> queue \ {cur},
                observed_buses |-> obs_b \cup {cur},
                observed_components |-> obs_c, crossings |-> cr, late |-> {}]
    IN VisitObjs(st0, cs, ConnObjs(cs, bs, cur), 1, cur,
                 bs[b].rated_voltage, bs[b].voltage_type)

----------------------------------------------------------------------------
(* Specification SpecVolt: Reader.assign_bus_voltages run on a built       *)
(* system.                                                                 *)

MaxVoltComps == 3
MaxSources == 2

\* Winding levels of the transformers of the model.  HighSide is the
\* line-to-line level ScaleLineToLine gives the source bus.
HighSide == [rated_voltage |-> 4330, voltage_type |-> "LL"]
LowSide == [rated_voltage |-> 480, voltage_type |-> "LG"]
WindingOptions == {<<HighSide, LowSide>>, <<HighSide, HighSide>>}

\* Branches and switches treat their two terminals alike in this pass, so
\* they are listed in one order; transformers are listed in both.
VoltEdgeOptions ==
    {c \in {Comp(kd, nm, b0, b1, <<>>) :
                kd \in {Branch, Switch}, nm \in CompNames0,
                b0 \in BusIds0, b1 \in BusIds0} : c.buses[1] < c.buses[2]}
    \cup
    {Comp(Xfmr, nm, b0, b1, wd) :
        nm \in CompNames0, b0 \in BusIds0, b1 \in BusIds0, wd \in WindingOptions}

Source(nm, b, v, n) == [name |-> nm, bus |-> b, phase_voltage |-> v, nphases |-> n]

\* One source on the first bus, and up to MaxSources - 1 more anywhere.
SourceOptions ==
    {<<Source(<<"s1">>, 1, 2500, n)>> \o more :
        n \in {1, 3},
        more \in SeqsUpTo({Source(<<"s2">>, b, 7250, 3) : b \in BusIds0},
                          MaxSources - 1)}

VoltInit ==
    /\ pc = "built"
    /\ buses = InitialBuses
    /\ comps \in {cs \in SeqsUpTo(VoltEdgeOptions, MaxVoltComps) : WellFormedComps(cs)}
    /\ sources \in SourceOptions
    /\ bus_queue = {}
    /\ observed_buses = {}
    /\ observed_components = {}
    /\ crossings = {}
    /\ retaken = {}
    /\ late_assignments = {}
    /\ SerIdle
    /\ TruncIdle
    /\ ValIdle
    /\ CimIdle
    /\ QryIdle
    /\ ExtIdle

\* bus_queue = self._start_queue_w_voltage_sources()
VoltStart ==
    /\ pc = "built"
    /\ LET r == StartQueue(buses, sources, 1, {})
       IN /\ buses' = r.buses
          /\ bus_queue' = r.queue
          /\ pc' = IF r.raised THEN "volt_raised" ELSE "propagating"
    /\ UNCHANGED <<comps, sources, observed_buses, observed_components, crossings,
                   retaken, late_assignments, voltOthers>>

\* One iteration of "while bus_queue": set.pop() takes an arbitrary name.
PopBus ==
    /\ pc = "propagating"
    /\ \E cur \in bus_queue :
          LET st == PopAndVisit(buses, comps, bus_queue, observed_buses,
                                observed_components, crossings, cur)
          IN /\ buses' = st.buses
             /\ bus_queue' = st.queue
             /\ observed_buses' = st.observed_buses
             /\ observed_components' = st.observed_components
             /\ crossings' = st.crossings
             /\ retaken' = IF cur \in observed_buses THEN retaken \cup {cur} ELSE retaken
             /\ late_assignments' = late_assignments \cup st.late
    /\ UNCHANGED <<pc, comps, sources, voltOthers>>

\* The queue is empty: the pass returns.
VoltDone ==
    /\ pc = "propagating"
    /\ bus_queue = {}
    /\ pc' = "volt_done"
    /\ UNCHANGED <<buses, comps, voltVars, voltOthers>>

VoltNext == VoltStart \/ PopBus \/ VoltDone

SpecVolt == VoltInit /\ [][VoltNext]_vars

\* The buses joined to bus b by a path of components.
RECURSIVE ReachFrom(_, _)
ReachFrom(cs, seen) ==
    LET more == {b \in UNION {Range(cs[c].buses) : c \in DOMAIN cs} :
                    \E c \in DOMAIN cs :
                        b \in Range(cs[c].buses) /\ Range(cs[c].buses) \cap seen # {}}
    IN IF more \subseteq seen THEN seen ELSE ReachFrom(cs, seen \cup more)

\* C2: with one voltage source and no transformers, after
\* assign_bus_voltages every bus joined to the source bus by a path of
\* components has the rated voltage and voltage type of the source bus.
ConnectedBusesShareSourceVoltage ==
    (/\ pc = "volt_done"
     /\ Len(sources) = 1
     /\ \A c \in DOMAIN comps : comps[c].kind # Xfmr)
    => \A b \in ReachFrom(comps, {sources[1].bus}) :
          /\ buses[b].rated_voltage = buses[sources[1].bus].rated_voltage
          /\ buses[b].voltage_type = buses[sources[1].bus].voltage_type

\* C3: a bus reached across a transformer from a popped bus ends the pass
\* with the rated voltage and voltage type of the winding of its terminal.
FarBusTakesWindingVoltage ==
    (pc = "volt_done") =>
        \A x \in crossings :
            /\ buses[x[3]].rated_voltage = comps[x[1]].windings[x[2]].rated_voltage
            /\ buses[x[3]].voltage_type = comps[x[1]].windings[x[2]].voltage_type

\* C19: a bus is taken from the queue at most once, and once it has been
\* taken its rated voltage and voltage type are never assigned again.
BusTakenOnceAndSettled ==
    /\ retaken = {}
    /\ late_assignments = {}
    /\ bus_queue \cap observed_buses = {}

\* C19 witness: the pass has ended after taking every bus of a system with
\* two sources on different buses and MaxVoltComps components.
EveryBusTakenWithTwoSources ==
    /\ pc = "volt_done"
    /\ Len(sources) = 2
    /\ sources[1].bus # sources[2].bus
    /\ observed_buses = {buses[b].name : b \in DOMAIN buses}
    /\ Len(comps) = MaxVoltComps

\* The state _start_queue_w_voltage_sources returns in: nothing popped yet.
QueueStarted == pc = "propagating" /\ observed_buses = {} /\ observed_components = {}

\* The voltage the last source on its bus gives the bus, as the claim has it.
SourceBusVoltage(src) ==
    IF src.nphases > 1 THEN ScaleLineToLine(src.phase_voltage) ELSE src.phase_voltage

\* With no single-phase source, the queue starts with the bus of every
\* source, rated at the scaled phase voltage of the last source on it.
InitialQueueOfMultiPhaseSources ==
    QueueStarted =>
        \A k \in DOMAIN sources :
            /\ buses[sources[k].bus].name \in bus_queue
            /\ (\A j \in DOMAIN sources : j > k => sources[j].bus # sources[k].bus)
                  => buses[sources[k].bus].rated_voltage = SourceBusVoltage(sources[k])

\* C18: before propagation starts, the bus of every voltage source is in
\* the initial queue with the rated voltage taken from the source
\* equipment's phase voltage, times 1.732 when the source has more than one
\* phase and unscaled when it has exactly one.
InitialQueueHoldsSourceBuses ==
    /\ pc # "volt_raised"
    /\ InitialQueueOfMultiPhaseSources

----------------------------------------------------------------------------
(* network_truncation (readers/cyme/utils.py)                              *)

MaxTruncComps == 2
MaxLoads == 1

\* The feeder and substation of a bus; "none" is Python's None.
BusProfiles == {<<"f1", "s1">>, <<"f2", "none">>, <<"none", "none">>}

Names(ns) == [given |-> TRUE, names |-> ns]

\* filter_substation(object, substation_names) for a bus with a substation.
FilterSubstation(bus, substation_names) ==
    bus.substation # "none" /\ bus.substation \in substation_names.names

\* filter_feeder(object, feeder_names) for a bus with a feeder.
FilterFeeder(bus, feeder_names) ==
    bus.feeder # "none" /\ bus.feeder \in feeder_names.names

\* "x in None" raises TypeError: a bus that has a substation (a feeder) is
\* tested against substation_names (feeder_names) that was left unset.
FilterRaises(bs, req) ==
    \/ ~req.substation_names.given /\ \E b \in DOMAIN bs : bs[b].substation # "none"
    \/ ~req.feeder_names.given /\ \E b \in DOMAIN bs : bs[b].feeder # "none"

\* _collect_connected_buses: the names of the buses either filter accepts.
CollectConnectedBuses(bs, req) ==
    {bs[b].name : b \in {x \in DOMAIN bs : FilterSubstation(bs[x], req.substation_names)}}
    \cup
    {bs[b].name : b \in {x \in DOMAIN bs : FilterFeeder(bs[x], req.feeder_names)}}

\* The endpoint test demanding every endpoint.
KeepsComponentAllEnds(comp, bs, names) ==
    \A t \in DOMAIN comp.buses : bs[comp.buses[t]].name \in names

\* "for bus in comp.buses: if bus.name in bus_set": any endpoint is enough.
KeepsComponent(comp, bs, names) ==
    \E t \in DOMAIN comp.buses : bs[comp.buses[t]].name \in names

\* "if comp.bus.name in bus_set"
KeepsLoad(ld, bs, names) == bs[ld.bus].name \in names

\* system.get_component_types(), in the order the types were registered.
TruncTypes == <<"DistributionBus", "DistributionLoad", Branch, Switch, Xfmr>>

\* The loop body for one component type.  trunc_dist_sys adds the composed
\* buses of a component with it (auto_add_composed_components=True); a
\* DistributionBus has neither a bus nor a buses attribute, so the loop over
\* the buses breaks at once and adds nothing.
TruncateComponents(sys, kind, cs, lds, bs, names) ==
    IF kind = "DistributionBus" THEN sys
    ELSE IF kind = "DistributionLoad"
    THEN LET kept == {l \in DOMAIN lds : KeepsLoad(lds[l], bs, names)}
         IN [sys EXCEPT !.loads = @ \cup kept,
                        !.buses = @ \cup {lds[l].bus : l \in kept}]
    ELSE LET kept == {c \in DOMAIN cs :
                         cs[c].kind = kind /\ KeepsComponent(cs[c], bs, names)}
         IN [sys EXCEPT !.comps = @ \cup kept,
                        !.buses = @ \cup UNION {Range(cs[c].buses) : c \in kept}]

TruncBuses ==
    {[b \in BusIds0 |-> NewBus(<<BusNames0[b]>>, pr[b][1], pr[b][2])] :
        pr \in [BusIds0 -> BusProfiles]}

TruncEdgeOptions ==
    {c \in {Comp(kd, <<"x">>, b0, b1, <<>>) :
                kd \in {Branch, Xfmr}, b0 \in BusIds0, b1 \in BusIds0} :
        c.buses[1] < c.buses[2]}

LoadOptions == {[name |-> <<"ld">>, bus |-> b] : b \in BusIds0}

RequestOptions ==
    {[substation_names |-> sn, feeder_names |-> fn] :
        sn \in {NoNames, Names({}), Names({"s1"})},
        fn \in {NoNames, Names({}), Names({"f1"}), Names({"f2"})}}

TruncInit ==
    /\ pc = "built"
    /\ buses \in TruncBuses
    /\ comps \in {cs \in SeqsUpTo(TruncEdgeOptions, MaxTruncComps) : WellFormedComps(cs)}
    /\ loads \in SeqsUpTo(LoadOptions, MaxLoads)
    /\ request \in RequestOptions
    /\ bus_set = {}
    /\ trunc_dist_sys = EmptySystem
    /\ ti = 0
    /\ SerIdle
    /\ VoltIdle
    /\ ValIdle
    /\ CimIdle
    /\ QryIdle
    /\ ExtIdle

\* bus_set = _collect_connected_buses(...), or the TypeError of a filter.
CollectBuses ==
    /\ pc = "built"
    /\ IF FilterRaises(buses, request)
       THEN pc' = "trunc_raised" /\ UNCHANGED bus_set
       ELSE pc' = "truncating" /\ bus_set' = CollectConnectedBuses(buses, request)
    /\ UNCHANGED <<buses, comps, loads, request, trunc_dist_sys, ti, truncOthers>>

\* One iteration of "for component_type in types".
TruncateType ==
    /\ pc = "truncating"
    /\ ti < Len(TruncTypes)
    /\ trunc_dist_sys' =
           TruncateComponents(trunc_dist_sys, TruncTypes[ti + 1], comps, loads,
                              buses, bus_set)
    /\ ti' = ti + 1
    /\ UNCHANGED <<pc, buses, comps, loads, request, bus_set, truncOthers>>

\* return trunc_dist_sys
TruncReturn ==
    /\ pc = "truncating"
    /\ ti = Len(TruncTypes)
    /\ pc' = "truncated"
    /\ UNCHANGED <<buses, comps, truncVars, truncOthers>>

TruncNext == CollectBuses \/ TruncateType \/ TruncReturn

SpecTrunc == TruncInit /\ [][TruncNext]_vars

\* The names of the buses whose substation or feeder name was requested.
RequestedBusNames ==
    {buses[b].name : b \in {x \in DOMAIN buses :
        \/ FilterSubstation(buses[x], request.substation_names)
        \/ FilterFeeder(buses[x], request.feeder_names)}}

\* The bus-connected components and loads of the result, by their endpoints.
KeptExactlyTouching ==
    /\ \A c \in DOMAIN comps :
          (c \in trunc_dist_sys.comps) <=>
              (\E t \in DOMAIN comps[c].buses :
                   buses[comps[c].buses[t]].name \in RequestedBusNames)
    /\ \A l \in DOMAIN loads :
          (l \in trunc_dist_sys.loads) <=>
              (buses[loads[l].bus].name \in RequestedBusNames)

\* C5 (as the code has it): the result holds a bus-connected component
\* exactly when one of its endpoint buses has a requested feeder or
\* substation name, and its buses are exactly the endpoints of the
\* components it holds.
TruncationKeepsTouchingComponents ==
    (pc = "truncated") =>
        /\ KeptExactlyTouching
        /\ trunc_dist_sys.buses =
              UNION {Range(comps[c].buses) : c \in trunc_dist_sys.comps}
              \cup {loads[l].bus : l \in trunc_dist_sys.loads}

\* C5 as stated: the result holds only buses whose feeder or substation name
\* was requested, and a component exactly when an endpoint is such a bus.
TruncationKeepsOnlyRequestedBuses ==
    (pc = "truncated") =>
        /\ \A b \in trunc_dist_sys.buses : buses[b].name \in RequestedBusNames
        /\ KeptExactlyTouching

\* C5 witness: a truncation returned a component that has one endpoint with
\* a requested name and one without.
TruncationKeptBoundaryComponent ==
    /\ pc = "truncated"
    /\ \E c \in trunc_dist_sys.comps :
          /\ buses[comps[c].buses[1]].name \in RequestedBusNames
          /\ buses[comps[c].buses[2]].name \notin RequestedBusNames

\* C17: a truncation asked with feeder names alone, or with substation
\* names alone, the other argument left unset, completes without an error
\* and keeps the buses that match the names given.
TruncationAcceptsOneNameList ==
    (request.substation_names.given # request.feeder_names.given) =>
        /\ pc # "trunc_raised"
        /\ (pc = "truncated") =>
              \A b \in DOMAIN buses :
                  (/\ buses[b].name \in RequestedBusNames
                   /\ \/ \E c \in DOMAIN comps : b \in Range(comps[c].buses)
                      \/ \E l \in DOMAIN loads : loads[l].bus = b)
                  => b \in trunc_dist_sys.buses

\* With one list of names given, a truncation that does not fail keeps
\* the matching buses that carry a component or a load.
TruncationWithOneNameListKeepsOrRaises ==
    (request.substation_names.given # request.feeder_names.given /\ pc = "truncated") =>
        \A b \in DOMAIN buses :
            (/\ buses[b].name \in RequestedBusNames
             /\ \/ \E c \in DOMAIN comps : b \in Range(comps[c].buses)
                \/ \E l \in DOMAIN loads : loads[l].bus = b)
            => b \in trunc_dist_sys.buses

----------------------------------------------------------------------------
(* The final re-validation of a CYME read: Reader._add_components for each *)
(* component type, then Reader._validate_model.  validation_errors is a    *)
(* class attribute: every Reader of the process appends to the same list.  *)

MaxValComps == 2
MaxErrors == 2
MaxRuns == 2

\* self.system.get_component_types(): the types that have a component.
ComponentTypes(cs) ==
    SelectSeq(<<Branch, Switch, Xfmr>>, LAMBDA kd : \E c \in DOMAIN cs : cs[c].kind = kd)

\* The rows appended for one component: one per error of e.errors().
ErrorRows(cs, ne, c) ==
    [e \in 1..ne[c] |-> [name |-> cs[c].name, type |-> cs[c].kind, error |-> e]]

\* "for component in components", from the k-th component on: every
\* component is validated and a ValidationError is caught and recorded.
RECURSIVE AppendErrors(_, _, _, _, _)
AppendErrors(errs, cs, ne, kind, k) ==
    IF k > Len(cs) THEN errs
    ELSE IF cs[k].kind = kind
         THEN AppendErrors(errs \o ErrorRows(cs, ne, k), cs, ne, kind, k + 1)
         ELSE AppendErrors(errs, cs, ne, kind, k + 1)

\* Reader._add_components(components) for the components of one type.
AddComponents(errs, cs, ne, kind) == AppendErrors(errs, cs, ne, kind, 1)

ValEdgeOptions ==
    {Comp(kd, <<"x">>, 1, 2, <<>>) : kd \in EdgeKinds}
    \cup {Comp(Branch, <<"y">>, 2, 3, <<>>)}

ValSystems == {cs \in SeqsUpTo(ValEdgeOptions, MaxValComps) : WellFormedComps(cs)}

ValInit ==
    /\ pc = "validating"
    /\ buses = InitialBuses
    /\ comps \in ValSystems
    /\ nerrors \in [DOMAIN comps -> 0..MaxErrors]
    /\ validation_errors = <<>>
    /\ checked = {}
    /\ vi = 0
    /\ stale = 0
    /\ run = 1
    /\ SerIdle
    /\ VoltIdle
    /\ TruncIdle
    /\ CimIdle
    /\ QryIdle
    /\ ExtIdle

\* One iteration of "for component_type in self.system.get_component_types()".
AddComponentsOfType ==
    /\ pc = "validating"
    /\ vi < Len(ComponentTypes(comps))
    /\ LET kind == ComponentTypes(comps)[vi + 1]
       IN /\ validation_errors' = AddComponents(validation_errors, comps, nerrors, kind)
          /\ checked' = checked \cup {c \in DOMAIN comps : comps[c].kind = kind}
    /\ vi' = vi + 1
    /\ UNCHANGED <<pc, buses, comps, nerrors, stale, run, valOthers>>

\* self._validate_model(): raise when the list is not empty.
ValidateModel ==
    /\ pc = "validating"
    /\ vi = Len(ComponentTypes(comps))
    /\ pc' = IF validation_errors # <<>> THEN "validation_raised" ELSE "validated"
    /\ UNCHANGED <<buses, comps, valVars, valOthers>>

\* Another Reader is constructed in the same process: a new system, the
\* same class attribute.
NewReader ==
    /\ pc \in {"validated", "validation_raised"}
    /\ run < MaxRuns
    /\ run' = run + 1
    /\ comps' \in ValSystems
    /\ nerrors' \in [DOMAIN comps' -> 0..MaxErrors]
    /\ checked' = {}
    /\ vi' = 0
    /\ stale' = Len(validation_errors)
    /\ pc' = "validating"
    /\ UNCHANGED <<buses, validation_errors, valOthers>>

ValNext == AddComponentsOfType \/ ValidateModel \/ NewReader

SpecValidate == ValInit /\ [][ValNext]_vars

\* The rows this run appended to the list.
RunErrors == SubSeq(validation_errors, stale + 1, Len(validation_errors))

\* C6: when the re-validation of a run ends, every component of the run has
\* been validated, every error of every invalid component is among the rows
\* the run collected, and the run raised exactly when it collected a row.
ValidationRaisesIffRunCollectedErrors ==
    (pc \in {"validated", "validation_raised"}) =>
        /\ checked = DOMAIN comps
        /\ \A c \in DOMAIN comps : \A e \in 1..nerrors[c] :
              \E k \in DOMAIN RunErrors :
                  RunErrors[k] = [name |-> comps[c].name, type |-> comps[c].kind,
                                  error |-> e]
        /\ (pc = "validation_raised") <=> (RunErrors # <<>>)

----------------------------------------------------------------------------
(* The CIM reader: CimMapper._required_field / _required_component, the    *)
(* component mappers, and the component_types loop of Reader.read.         *)
(* A row is a function from column names to values; "NULL" is None.        *)

MaxDefects == 1

Bus == "DistributionBus"
Load == "DistributionLoad"
Battery == "DistributionBattery"
Capacitor == "DistributionCapacitor"
BranchEquipment == "MatrixImpedanceBranchEquipment"

\* The same list with the line codes built after the lines that use them.
ComponentTypesBranchFirst ==
    <<Bus, Load, Battery, Capacitor, "DistributionVoltageSource",
      "RegulatorController", Branch, BranchEquipment, Xfmr,
      "DistributionRegulator", Switch>>

\* Reader.component_types of the CIM reader.
component_types ==
    <<Bus, Load, Battery, Capacitor, "DistributionVoltageSource",
      "RegulatorController", BranchEquipment, Branch, Xfmr,
      "DistributionRegulator", Switch>>

\* Reader.component_types of the CYME reader.
CymeComponentTypes ==
    <<"DistributionBus", "DistributionVoltageSource",
      "MatrixImpedanceRecloserEquipment", "MatrixImpedanceRecloser",
      "MatrixImpedanceSwitchEquipment", "MatrixImpedanceSwitch",
      "MatrixImpedanceFuseEquipment", "MatrixImpedanceFuse",
      "DistributionCapacitor", "DistributionLoad", "BareConductorEquipment",
      "MatrixImpedanceBranchEquipment", "GeometryBranchEquipment",
      "GeometryBranchByPhaseEquipment", "GeometryBranch", "GeometryBranchByPhase",
      "DistributionTransformerByPhase", "DistributionTransformer",
      "DistributionTransformerThreeWinding", "MatrixImpedanceBranch">>

\* The equipment types of the CYME list and the component type each serves.
CymeEquipmentOf ==
    {<<"MatrixImpedanceRecloserEquipment", "MatrixImpedanceRecloser">>,
     <<"MatrixImpedanceSwitchEquipment", "MatrixImpedanceSwitch">>,
     <<"MatrixImpedanceFuseEquipment", "MatrixImpedanceFuse">>,
     <<"MatrixImpedanceBranchEquipment", "MatrixImpedanceBranch">>,
     <<"GeometryBranchEquipment", "GeometryBranch">>,
     <<"GeometryBranchByPhaseEquipment", "GeometryBranchByPhase">>,
     <<"BareConductorEquipment", "GeometryBranchEquipment">>,
     <<"BareConductorEquipment", "GeometryBranchByPhaseEquipment">>}

Position(types, kind) == CHOOSE k \in DOMAIN types : types[k] = kind

\* The steps of a mapper's parse, in evaluation order.
RequiredField(col, named) == [op |-> "required_field", col |-> col, type |-> "", named |-> named]
RequiredComponent(type, col) == [op |-> "required_component", col |-> col, type |-> type, named |-> TRUE]
PlainFields == [op |-> "plain", col |-> "other", type |-> "", named |-> TRUE]
EquipmentSearch == [op |-> "equipment_search", col |-> "", type |-> BranchEquipment, named |-> TRUE]

\* DistributionLoadMapper.parse: map_name, map_bus, map_phases, map_equipment.
LoadSteps ==
    <<RequiredField("load", FALSE), RequiredField("bus", TRUE),
      RequiredComponent(Bus, "bus"), RequiredField("bus", TRUE),
      RequiredComponent(Bus, "bus"), PlainFields>>

\* DistributionBatteryMapper.parse
BatterySteps ==
    <<RequiredField("battery", FALSE), RequiredField("bus", TRUE),
      RequiredComponent(Bus, "bus"), PlainFields>>

\* DistributionCapacitorMapper.parse
CapacitorSteps ==
    <<RequiredField("capacitor", FALSE), RequiredField("bus", TRUE),
      RequiredComponent(Bus, "bus"), PlainFields>>

\* MatrixImpedanceBranchMapper.parse: name, buses, length, phases, equipment.
BranchSteps ==
    <<RequiredField("line", FALSE), RequiredField("bus_1", TRUE),
      RequiredField("bus_2", TRUE), RequiredComponent(Bus, "bus_1"),
      RequiredComponent(Bus, "bus_2"), PlainFields,
      RequiredField("line_code", TRUE), RequiredComponent(BranchEquipment, "line_code")>>

\* DistributionTransformerMapper.parse: name, buses, equipment, winding phases.
XfmrSteps ==
    <<RequiredField("xfmr", FALSE), RequiredField("bus_1", TRUE),
      RequiredField("bus_2", TRUE), RequiredComponent(Bus, "bus_1"),
      RequiredComponent(Bus, "bus_2"), PlainFields>>

\* MatrixImpedanceSwitchMapper.parse: bus_2 first, then name, buses, phases,
\* equipment (a search by phase count), is_closed.
SwitchSteps ==
    <<RequiredField("switch_name", FALSE), RequiredField("bus_2", TRUE),
      RequiredComponent(Bus, "bus_2"), RequiredField("bus_1", TRUE),
      RequiredField("bus_2", TRUE), RequiredComponent(Bus, "bus_1"),
      RequiredComponent(Bus, "bus_2"), EquipmentSearch, PlainFields>>

\* The mappers of buses and line codes construct a component under the
\* row's name and look nothing up.
BusSteps == <<>>
BranchEquipmentSteps == <<>>

MapperSteps(kind) ==
    CASE kind = Bus -> BusSteps
      [] kind = BranchEquipment -> BranchEquipmentSteps
      [] kind = Load -> LoadSteps
      [] kind = Battery -> BatterySteps
      [] kind = Capacitor -> CapacitorSteps
      [] kind = Branch -> BranchSteps
      [] kind = Xfmr -> XfmrSteps
      [] kind = Switch -> SwitchSteps
      [] OTHER -> <<>>

\* The column map_name reads.
NameColumn(kind) ==
    CASE kind = Bus -> "bus"
      [] kind = BranchEquipment -> "line_code"
      [] kind = Load -> "load"
      [] kind = Battery -> "battery"
      [] kind = Capacitor -> "capacitor"
      [] kind = Branch -> "line"
      [] kind = Xfmr -> "xfmr"
      [] kind = Switch -> "switch_name"
      [] OTHER -> "name"

Parsed(nm, lk) ==
    [ok |-> TRUE, name |-> nm, exc |-> "", by |-> "", field |-> "", type |-> "",
     context |-> [type |-> "", name |-> ""], lookups |-> lk]

Raised(exc, step, ctx, lk) ==
    [ok |-> FALSE, name |-> "", exc |-> exc, by |-> step.op, field |-> step.col,
     type |-> step.type, context |-> ctx, lookups |-> lk]

\* The switch's equipment: some registered line code whose matrix has as
\* many phases as the switch's bus_2 (three, the phases of a bus no row
\* narrows).
HasMatchingEquipment(reg, data) ==
    \E k \in DOMAIN data[BranchEquipment] :
        /\ <<BranchEquipment, data[BranchEquipment][k].line_code>> \in reg
        /\ data[BranchEquipment][k].phase_count = "3"

\* mapper.parse(row) from step k on, against the registry reg.
RECURSIVE RunSteps(_, _, _, _, _, _, _)
RunSteps(steps, k, row, kind, reg, data, lk) ==
    IF k > Len(steps) THEN Parsed(row[NameColumn(kind)], lk)
    ELSE
      LET s == steps[k]
          ctx == [type |-> kind,
                  name |-> IF s.named THEN row[NameColumn(kind)] ELSE ""]
      IN CASE s.op = "required_field" ->
                IF s.col \notin DOMAIN row \/ row[s.col] = "NULL"
                THEN Raised("ValueError", s, ctx, lk)
                ELSE RunSteps(steps, k + 1, row, kind, reg, data, lk)
           [] s.op = "required_component" ->
                LET found == <<s.type, row[s.col]>> \in reg
                    lk2 == lk \cup {[by |-> kind, type |-> s.type,
                                     name |-> row[s.col], found |-> found]}
                IN IF found
                   THEN RunSteps(steps, k + 1, row, kind, reg, data, lk2)
                   ELSE Raised("LookupError", s, ctx, lk2)
           [] s.op = "equipment_search" ->
                IF HasMatchingEquipment(reg, data)
                THEN RunSteps(steps, k + 1, row, kind, reg, data, lk)
                ELSE Raised("ValueError", s, ctx, lk)
           [] OTHER ->
                IF "other" \in DOMAIN row /\ row["other"] = "ok"
                THEN RunSteps(steps, k + 1, row, kind, reg, data, lk)
                ELSE Raised("KeyError", s, ctx, lk)

Parse(kind, row, reg, data, lk) == RunSteps(MapperSteps(kind), 1, row, kind, reg, data, lk)

\* "for row_index, row in datasets[component_type].iterrows()" from row k
\* on: the first row whose parse raises ends the loop.
RECURSIVE ParseRows(_, _, _, _, _, _)
ParseRows(kind, k, reg, data, names, lk) ==
    IF k > Len(data[kind])
    THEN [failed |-> FALSE, row |-> 0, cause |-> Parsed("", lk), names |-> names,
          lookups |-> lk]
    ELSE LET r == Parse(kind, data[kind][k], reg, data, lk)
         IN IF r.ok
            THEN ParseRows(kind, k + 1, reg, data, names \cup {r.name}, r.lookups)
            ELSE [failed |-> TRUE, row |-> k - 1, cause |-> r, names |-> names,
                  lookups |-> r.lookups]

\* The same loop passing over a row whose parse raises.
RECURSIVE ParseRowsSkipping(_, _, _, _, _, _)
ParseRowsSkipping(kind, k, reg, data, names, lk) ==
    IF k > Len(data[kind])
    THEN [failed |-> FALSE, row |-> 0, cause |-> Parsed("", lk), names |-> names,
          lookups |-> lk]
    ELSE LET r == Parse(kind, data[kind][k], reg, data, lk)
         IN ParseRowsSkipping(kind, k + 1, reg, data,
                              IF r.ok THEN names \cup {r.name} ELSE names, r.lookups)

ReadRowsSkipping(kind, reg, data, lk) == ParseRowsSkipping(kind, 1, reg, data, {}, lk)

\* The row loop of Reader.read for one component type.
ReadRows(kind, reg, data, lk) == ParseRows(kind, 1, reg, data, {}, lk)

----------------------------------------------------------------------------
(* Specification SpecCimRead: the component_types loop of the CIM          *)
(* Reader.read over queried datasets.                                      *)

\* The types whose mapper takes its references through CimMapper.
MappedKinds == {Load, Battery, Capacitor, Branch, Xfmr, Switch}

\* A row as the queries deliver it for a consistent source graph.
BaseRow(kind, phase_count) ==
    CASE kind = Load -> [load |-> "ld1", bus |-> "n1", other |-> "ok"]
      [] kind = Battery -> [battery |-> "bt1", bus |-> "n2", other |-> "ok"]
      [] kind = Capacitor -> [capacitor |-> "cp1", bus |-> "n1", other |-> "ok"]
      [] kind = BranchEquipment -> [line_code |-> "lc1", phase_count |-> phase_count]
      [] kind = Branch -> [line |-> "l1", bus_1 |-> "n1", bus_2 |-> "n2",
                           line_code |-> "lc1", other |-> "ok"]
      [] kind = Xfmr -> [xfmr |-> "t1", bus_1 |-> "n1", bus_2 |-> "n2", other |-> "ok"]
      [] kind = Switch -> [switch_name |-> "sw1", bus_1 |-> "n1", bus_2 |-> "n2",
                           other |-> "ok"]

\* What can be wrong with one column of one row: the column is absent, its
\* value is None, it names nothing registered, or (for the plain fields)
\* reading it raises.
DefectOptions ==
    UNION {{[kind |-> kind, col |-> col, how |-> how] :
               col \in DOMAIN BaseRow(kind, "3"),
               how \in {"MISSING", "NULL", "UNREGISTERED", "BAD"}} : kind \in MappedKinds}

ValidDefect(d) ==
    IF d.col = "other" THEN d.how = "BAD"
    ELSE IF d.col = NameColumn(d.kind) THEN d.how \in {"MISSING", "NULL"}
    ELSE d.how \in {"MISSING", "NULL", "UNREGISTERED"}

RECURSIVE DefectSets(_)
DefectSets(n) ==
    IF n = 0 THEN {{}}
    ELSE LET prev == DefectSets(n - 1)
         IN prev \cup
            {D \cup {d} : D \in prev,
                          d \in {e \in DefectOptions : ValidDefect(e)}}

OneDefectPerColumn(D) ==
    \A d, e \in D : (d # e) => (d.kind # e.kind \/ d.col # e.col)

ApplyDefects(row, kind, D) ==
    LET mine == {d \in D : d.kind = kind}
        gone == {d.col : d \in {e \in mine : e.how = "MISSING"}}
    IN [c \in (DOMAIN row) \ gone |->
          IF \E d \in mine : d.col = c
          THEN LET d == CHOOSE e \in mine : e.col = c
               IN CASE d.how = "NULL" -> "NULL"
                    [] d.how = "UNREGISTERED" -> "n9"
                    [] OTHER -> "bad"
          ELSE row[c]]

MakeDatasets(present, phase_count, D) ==
    [kind \in Range(component_types) |->
        IF kind = Bus THEN <<[bus |-> "n1"], [bus |-> "n2"]>>
        ELSE IF kind \in present
        THEN <<ApplyDefects(BaseRow(kind, phase_count), kind, D)>>
        ELSE <<>>]

CimInit ==
    /\ pc = "reading"
    /\ buses = <<>>
    /\ comps = <<>>
    /\ datasets \in
          {MakeDatasets(present, ph, D) :
              present \in SUBSET (MappedKinds \cup {BranchEquipment}),
              ph \in {"1", "3"},
              D \in {X \in DefectSets(MaxDefects) : OneDefectPerColumn(X)}}
    /\ registry = {}
    /\ ci = 0
    /\ failure = NoFailure
    /\ lookups = {}
    /\ SerIdle
    /\ VoltIdle
    /\ TruncIdle
    /\ ValIdle
    /\ QryIdle
    /\ ExtIdle

\* component_name of the "Failed parsing" message.
FailureName(row) ==
    LET Has(c) == c \in DOMAIN row /\ row[c] # "NULL"
    IN IF Has("name") THEN row["name"]
       ELSE IF Has("xfmr") THEN row["xfmr"]
       ELSE IF Has("line") THEN row["line"]
       ELSE IF Has("switch_name") THEN row["switch_name"]
       ELSE ""

\* One iteration of "for component_type in self.component_types": the rows
\* are parsed and then added together, or the first failing parse leaves
\* Reader.read as a ValueError.
ReadType ==
    /\ pc = "reading"
    /\ ci < Len(component_types)
    /\ LET kind == component_types[ci + 1]
           r == ReadRows(kind, registry, datasets, lookups)
       IN /\ lookups' = r.lookups
          /\ IF r.failed
             THEN /\ failure' = [raised |-> TRUE, exc |-> "ValueError", type |-> kind,
                                 row |-> r.row,
                                 name |-> FailureName(datasets[kind][r.row + 1]),
                                 cause |-> r.cause]
                  /\ pc' = "read_failed"
                  /\ UNCHANGED <<registry, ci>>
             ELSE /\ registry' = registry \cup {<<kind, n>> : n \in r.names}
                  /\ ci' = ci + 1
                  /\ UNCHANGED <<pc, failure>>
    /\ UNCHANGED <<datasets, cimOthers>>

\* The loop is exhausted: Reader.read returns.
ReadDone ==
    /\ pc = "reading"
    /\ ci = Len(component_types)
    /\ pc' = "read_done"
    /\ UNCHANGED <<cimVars, cimOthers>>

CimNext == ReadType \/ ReadDone

SpecCimRead == CimInit /\ [][CimNext]_vars

\* The required columns of a row that are absent or None.
BadFields(kind, row) ==
    {s.col : s \in {x \in Range(MapperSteps(kind)) :
        x.op = "required_field" /\ (x.col \notin DOMAIN row \/ row[x.col] = "NULL")}}

\* The reference columns of a row whose value names nothing in reg.
BadRefs(kind, row, reg) ==
    {s.col : s \in {x \in Range(MapperSteps(kind)) :
        /\ x.op = "required_component"
        /\ x.col \in DOMAIN row
        /\ row[x.col] # "NULL"
        /\ <<x.type, row[x.col]>> \notin reg}}

\* C7: a row with an absent or None required column, or with a reference
\* that is not registered, is never passed over: every row of a type the
\* loop has left is free of both and registered.  When the read failed it
\* failed with a ValueError naming the type and the row, caused by a
\* ValueError naming the field and the context or by a LookupError naming
\* the referencing component, and nothing of that type or a later one was
\* added.
MappingErrorAbortsRead ==
    /\ \A k \in 1..ci : \A j \in DOMAIN datasets[component_types[k]] :
          LET kind == component_types[k]
              row == datasets[kind][j]
          IN /\ BadFields(kind, row) = {}
             /\ BadRefs(kind, row, registry) = {}
             /\ <<kind, row[NameColumn(kind)]>> \in registry
    /\ (pc = "read_failed") =>
          /\ failure.raised
          /\ failure.exc = "ValueError"
          /\ failure.type = component_types[ci + 1]
          /\ (failure.row + 1) \in DOMAIN datasets[failure.type]
          /\ LET row == datasets[failure.type][failure.row + 1]
                 c == failure.cause
             IN /\ (c.by = "required_field") =>
                      /\ c.exc = "ValueError"
                      /\ c.field \in BadFields(failure.type, row)
                      /\ c.context.type = failure.type
                /\ (c.by = "required_component") =>
                      /\ c.exc = "LookupError"
                      /\ c.field \in BadRefs(failure.type, row, registry)
                      /\ c.context = [type |-> failure.type,
                                      name |-> row[NameColumn(failure.type)]]
          /\ \A e \in registry : Position(component_types, e[1]) <= ci
    /\ (pc \in {"reading", "read_done"}) => ~failure.raised

\* C7 witness: the read was aborted at a line whose bus is not registered,
\* after the buses had been added.
ReadAbortedOnUnregisteredBus ==
    /\ pc = "read_failed"
    /\ failure.type = Branch
    /\ failure.cause.exc = "LookupError"
    /\ failure.cause.type = Bus
    /\ <<Bus, "n1">> \in registry

\* The types a mapper looks components up in.
ReferencedTypes(kind) ==
    {s.type : s \in {x \in Range(MapperSteps(kind)) :
        x.op \in {"required_component", "equipment_search"}}}

\* C8: buses come first in both readers' type lists, every type comes after
\* the types it refers to, every row of a referenced type is registered when
\* a referring type is parsed, and a lookup of a name that has a row of the
\* referenced type is always resolved.
ReferencesResolveInOrder ==
    /\ component_types[1] = Bus
    /\ CymeComponentTypes[1] = "DistributionBus"
    /\ \A k \in DOMAIN component_types :
          \A t \in ReferencedTypes(component_types[k]) :
              Position(component_types, t) < k
    /\ \A p \in CymeEquipmentOf :
          Position(CymeComponentTypes, p[1]) < Position(CymeComponentTypes, p[2])
    /\ (pc = "reading" /\ ci < Len(component_types)) =>
          \A t \in ReferencedTypes(component_types[ci + 1]) :
              \A j \in DOMAIN datasets[t] :
                  <<t, datasets[t][j][NameColumn(t)]>> \in registry
    /\ \A l \in lookups :
          (\E j \in DOMAIN datasets[l.type] :
               datasets[l.type][j][NameColumn(l.type)] = l.name) => l.found

\* C8 witness: a read finished with a line built from two registered buses
\* and a registered line code.
BranchBuiltAfterItsReferences ==
    /\ pc = "read_done"
    /\ <<Branch, "l1">> \in registry
    /\ \E l \in lookups : l.by = Branch /\ l.type = BranchEquipment /\ l.found
    /\ \E l \in lookups : l.by = Branch /\ l.type = Bus /\ l.found

----------------------------------------------------------------------------
(* Specification SpecQuery: the CIM query layer, one query per step in the *)
(* order Reader.read issues them, over a source graph reduced to what the  *)
(* queries select.                                                         *)

MaxLines == 2
MaxSwitches == 1
MaxNodes == 2

Points == {"p1", "p2"}

\* The node names of an entity's terminals, in result order.
TerminalOptions ==
    {<<"n1">>, <<"n1", "n1">>, <<"n1", "n2">>, <<"n2", "n1">>,
     <<"n1", "n2", "n3">>, <<"n1", "n2", "n1">>}

\* The position points of the locations a node's equipment refers to (an
\* empty set: the id has no position point).
LocationOptions ==
    {<<>>, <<{}>>, <<{"p1"}>>, <<{"p1", "p2"}>>, <<{"p1"}, {"p2"}>>,
     <<{"p1", "p2"}, {"p2"}>>}

\* The queries in the order of Reader.read.
QueryOrder ==
    <<"query_distribution_buses", "query_line_segments", "query_line_codes",
      "query_loads", "query_capacitors", "query_batteries",
      "query_power_transformers", "query_transformer_windings",
      "query_distribution_regulators", "query_source",
      "query_regulator_controllers", "query_load_break_switches">>

\* The queries that return _query_dataframe(graph, query, columns) as is.
PassThroughQueries ==
    {"query_loads", "query_capacitors", "query_power_transformers",
     "query_transformer_windings", "query_distribution_regulators",
     "query_source", "query_regulator_controllers"}

\* The column list of the frame each query returns: the list handed to
\* _empty_df, which is also the list of the frame built from rows, or the
\* "columns" list of a query that returns its frame unchanged.
QueryColumns(q) ==
    CASE q = "query_distribution_buses" -> <<"x", "y", "rated_voltage", "bus">>
      [] q = "query_line_segments" ->
           <<"line", "voltage", "length", "phase_count", "line_code", "bus_1",
             "phases_1", "bus_2", "phases_2">>
      [] q = "query_load_break_switches" ->
           <<"switch_name", "capacity", "ratedCurrent", "normally_open", "is_open",
             "voltage", "bus_1", "bus_2">>
      [] q = "query_line_codes" ->
           <<"line_code", "phase_count", "r", "x", "b", "ampacity_normal",
             "ampacity_emergency">>
      [] q = "query_batteries" ->
           <<"battery", "rated_energy", "stored_energy", "max_p", "p", "q", "rated_s",
             "rated_voltage", "phase", "bus">>
      [] q = "query_loads" ->
           <<"load", "active power", "reactive power", "rated_voltage", "grounded",
             "phase", "conn", "bus", "z_p", "i_p", "p_p", "z_q", "i_q", "p_q",
             "p_exp", "q_exp">>
      [] q = "query_capacitors" ->
           <<"capacitor", "rated_voltage", "conn", "bus", "b1", "g1", "b0", "g0",
             "phase", "steps">>
      [] q = "query_power_transformers" ->
           <<"xfmr", "apparent_power", "rated_voltage", "vector_group",
             "per_resistance", "conn", "angle", "winding", "bus", "xfmr_end">>
      [] q = "query_transformer_windings" ->
           <<"winding", "r1", "x1", "r0", "x0", "xfmr_end_1", "xfmr_end_2">>
      [] q = "query_distribution_regulators" ->
           <<"xfmr", "apparent_power", "rated_voltage", "per_resistance", "conn",
             "angle", "winding", "bus", "xfmr_end", "phase", "max_tap", "min_tap",
             "neutral_tap", "normal_tap", "dv", "current_tap", "z_1_leakage",
             "z_0_leakage", "z_1_loadloss", "z_0_loadloss">>
      [] q = "query_source" ->
           <<"source", "rated_voltage", "src_voltage", "src_angle", "r1", "x1",
             "r0", "x0", "bus">>
      [] q = "query_regulator_controllers" ->
           <<"regulator", "neutral_voltage", "initial_delay", "subsequent_delay",
             "ltc_flag", "enabled", "pt_ratio", "ct_ratio", "ct_rating", "mode",
             "bus", "phase", "target", "deadband", "ldc", "line_drop_r",
             "line_drop_x", "reversible", "max_voltage", "min_voltage">>

\* The expectations of test_query_contracts_empty_graph_schema.
ExpectedColumns(q) ==
    CASE q = "query_distribution_buses" -> <<"x", "y", "rated_voltage", "bus">>
      [] q = "query_line_segments" ->
           <<"line", "voltage", "length", "phase_count", "line_code", "bus_1",
             "phases_1", "bus_2", "phases_2">>
      [] q = "query_line_codes" ->
           <<"line_code", "phase_count", "r", "x", "b", "ampacity_normal",
             "ampacity_emergency">>
      [] q = "query_load_break_switches" ->
           <<"switch_name", "capacity", "ratedCurrent", "normally_open", "is_open",
             "voltage", "bus_1", "bus_2">>
      [] q = "query_batteries" ->
           <<"battery", "rated_energy", "stored_energy", "max_p", "p", "q",
             "rated_s", "rated_voltage", "phase", "bus">>
      [] q = "query_loads" ->
           <<"load", "active power", "reactive power", "rated_voltage", "grounded",
             "phase", "conn", "bus", "z_p", "i_p", "p_p", "z_q", "i_q", "p_q",
             "p_exp", "q_exp">>
      [] q = "query_capacitors" ->
           <<"capacitor", "rated_voltage", "conn", "bus", "b1", "g1", "b0", "g0",
             "phase", "steps">>
      [] q = "query_power_transformers" ->
           <<"xfmr", "apparent_power", "rated_voltage", "vector_group",
             "per_resistance", "conn", "angle", "winding", "bus", "xfmr_end">>
      [] q = "query_transformer_windings" ->
           <<"winding", "r1", "x1", "r0", "x0", "xfmr_end_1", "xfmr_end_2">>
      [] q = "query_distribution_regulators" ->
           <<"xfmr", "apparent_power", "rated_voltage", "per_resistance", "conn",
             "angle", "winding", "bus", "xfmr_end", "phase", "max_tap", "min_tap",
             "neutral_tap", "normal_tap", "dv", "current_tap", "z_1_leakage",
             "z_0_leakage", "z_1_loadloss", "z_0_loadloss">>
      [] q = "query_source" ->
           <<"source", "rated_voltage", "src_voltage", "src_angle", "r1", "x1",
             "r0", "x0", "bus">>
      [] q = "query_regulator_controllers" ->
           <<"regulator", "neutral_voltage", "initial_delay", "subsequent_delay",
             "ltc_flag", "enabled", "pt_ratio", "ct_ratio", "ct_rating", "mode",
             "bus", "phase", "target", "deadband", "ldc", "line_drop_r",
             "line_drop_x", "reversible", "max_voltage", "min_voltage">>

\* _empty_df(columns)
EmptyDf(columns) == [columns |-> columns, rows |-> <<>>]

\* Series.unique(): the values in order of first appearance.
RECURSIVE Unique(_)
Unique(s) ==
    IF s = <<>> THEN <<>>
    ELSE LET init == Unique(SubSeq(s, 1, Len(s) - 1))
             last == s[Len(s)]
         IN IF last \in Range(init) THEN init ELSE Append(init, last)

\* The loop over data[name].unique() of query_line_segments and
\* query_load_break_switches from entity k on: an entity with fewer than
\* two buses is skipped, any other yields a row with its first two buses.
RECURSIVE EndpointRows(_, _, _)
EndpointRows(entities, k, key) ==
    IF k > Len(entities) THEN <<>>
    ELSE LET e == entities[k]
             bs == Unique(e.buses)
             rest == EndpointRows(entities, k + 1, key)
         IN IF Len(bs) < 2 THEN rest
            ELSE <<(key :> e.name) @@ [bus_1 |-> bs[1], bus_2 |-> bs[2]]>> \o rest

\* The names logger.warning is called with in that loop.
SkippedEntities(entities) ==
    {entities[k].name : k \in {j \in DOMAIN entities : Len(Unique(entities[j].buses)) < 2}}

\* The frame both queries return for the entities the graph holds.
EndpointTable(entities, key, columns) ==
    IF entities = <<>> THEN EmptyDf(columns)
    ELSE LET data_set == EndpointRows(entities, 1, key)
         IN IF data_set = <<>> THEN EmptyDf(columns)
            ELSE [columns |-> columns, rows |-> data_set]

NonEmpty(s) == s # {}

\* "reduce(lambda x, y: x & y, coordinates)" over the locations of a node
\* that have position points.
CoordResult(n) ==
    LET coordinates == SelectSeq(n.locations, NonEmpty)
    IN [has |-> coordinates # <<>>,
        result |-> IF coordinates = <<>> THEN {}
                   ELSE {p \in Points : \A k \in DOMAIN coordinates : p \in coordinates[k]}]

IsKnown(n) == CoordResult(n).has /\ Cardinality(CoordResult(n).result) = 1
IsUnknown(n) == CoordResult(n).has /\ Cardinality(CoordResult(n).result) # 1

TheOne(S) == CHOOSE p \in S : TRUE

\* The inner loop over coordinate_map.items() for one node to be corrected.
RECURSIVE Correct(_, _, _, _)
Correct(coordinates, known, k, acc) ==
    IF k > Len(known) THEN acc
    ELSE LET coordinate == TheOne(CoordResult(known[k]).result)
         IN IF coordinate \in coordinates
            THEN LET rest == coordinates \ {coordinate}
                 IN IF Cardinality(rest) = 1
                    THEN Correct(rest, known, k + 1,
                                 [acc EXCEPT !.fixed = TRUE, !.point = TheOne(rest)])
                    ELSE Correct(rest, known, k + 1, [acc EXCEPT !.warned = TRUE])
            ELSE Correct(coordinates, known, k + 1, acc)

Corrected(n, nodes) ==
    Correct(CoordResult(n).result, SelectSeq(nodes, IsKnown), 1,
            [fixed |-> FALSE, point |-> "", warned |-> FALSE])

\* _get_bus_coordinates: the coordinate of every node that has one.
GetBusCoordinates(nodes) ==
    LET known == {k \in DOMAIN nodes : IsKnown(nodes[k])}
        fixed == {k \in DOMAIN nodes :
                    IsUnknown(nodes[k]) /\ Corrected(nodes[k], nodes).fixed}
    IN [nm \in {nodes[k].node : k \in known \cup fixed} |->
          LET k == CHOOSE j \in known \cup fixed : nodes[j].node = nm
          IN IF k \in known THEN TheOne(CoordResult(nodes[k]).result)
             ELSE Corrected(nodes[k], nodes).point]

MaxOf(S) == CHOOSE v \in S : \A w \in S : w <= v

\* _get_bus_base_voltages: the largest voltage seen at the node, 0.0 when
\* none is.
GetBusBaseVoltage(n) == MaxOf(n.voltages \cup {0})

\* query_distribution_buses: pd.concat([node_coordinates, node_voltage_df],
\* axis=1) has the x and y columns only when some node has a coordinate.
BusTable(nodes) ==
    IF nodes = <<>> THEN EmptyDf(QueryColumns("query_distribution_buses"))
    ELSE LET cm == GetBusCoordinates(nodes)
         IN IF DOMAIN cm = {}
            THEN [columns |-> <<"rated_voltage", "bus">>,
                  rows |-> [k \in DOMAIN nodes |->
                              [rated_voltage |-> GetBusBaseVoltage(nodes[k]),
                               bus |-> nodes[k].node]]]
            ELSE [columns |-> QueryColumns("query_distribution_buses"),
                  rows |-> [k \in DOMAIN nodes |->
                              [xy |-> IF nodes[k].node \in DOMAIN cm
                                      THEN cm[nodes[k].node] ELSE "NaN",
                               rated_voltage |-> GetBusBaseVoltage(nodes[k]),
                               bus |-> nodes[k].node]]]

NodeWarnings(nodes) ==
    {nodes[k].node : k \in {j \in DOMAIN nodes :
        IsUnknown(nodes[j]) /\ Corrected(nodes[j], nodes).warned}}

\* A frame built from one result row, or from none.
OtherTable(q, columns, others) ==
    IF others THEN [columns |-> columns, rows |-> <<[name |-> "e1"]>>]
    ELSE EmptyDf(columns)

Entities(prefix, n) ==
    UNION {{[k \in 1..m |-> [name |-> <<prefix, k>>, buses |-> f[k]]] :
               f \in [1..m -> TerminalOptions]} : m \in 0..n}

NodeSeqs(n) ==
    UNION {{[k \in 1..m |-> [node |-> <<"n", k>>, locations |-> f[k].locations,
                              voltages |-> f[k].voltages]] :
               f \in [1..m -> [locations : LocationOptions,
                               voltages : {{}, {120, 240}}]]} : m \in 0..n}

QryInit ==
    /\ pc = "querying"
    /\ buses = <<>>
    /\ comps = <<>>
    /\ graph \in [lines : Entities("l", MaxLines),
                  switches : Entities("sw", MaxSwitches),
                  nodes : NodeSeqs(MaxNodes),
                  others : BOOLEAN]
    /\ tables = <<>>
    /\ warnings = {}
    /\ SerIdle
    /\ VoltIdle
    /\ TruncIdle
    /\ ValIdle
    /\ CimIdle
    /\ ExtIdle

NextQuery == QueryOrder[Len(tables) + 1]

Returned(q, frame) == Append(tables, [query |-> q, columns |-> frame.columns,
                                      rows |-> frame.rows])

QueryDistributionBuses ==
    /\ pc = "querying"
    /\ Len(tables) < Len(QueryOrder)
    /\ NextQuery = "query_distribution_buses"
    /\ tables' = Returned(NextQuery, BusTable(graph.nodes))
    /\ warnings' = warnings \cup
                     {[query |-> NextQuery, name |-> n] : n \in NodeWarnings(graph.nodes)}
    /\ UNCHANGED <<pc, graph, qryOthers>>

QueryLineSegments ==
    /\ pc = "querying"
    /\ Len(tables) < Len(QueryOrder)
    /\ NextQuery = "query_line_segments"
    /\ tables' = Returned(NextQuery, EndpointTable(graph.lines, "line", QueryColumns(NextQuery)))
    /\ warnings' = warnings \cup
                     {[query |-> NextQuery, name |-> n] : n \in SkippedEntities(graph.lines)}
    /\ UNCHANGED <<pc, graph, qryOthers>>

QueryLoadBreakSwitches ==
    /\ pc = "querying"
    /\ Len(tables) < Len(QueryOrder)
    /\ NextQuery = "query_load_break_switches"
    /\ tables' = Returned(NextQuery,
                          EndpointTable(graph.switches, "switch_name", QueryColumns(NextQuery)))
    /\ warnings' = warnings \cup
                     {[query |-> NextQuery, name |-> n] : n \in SkippedEntities(graph.switches)}
    /\ UNCHANGED <<pc, graph, qryOthers>>

QueryLineCodes ==
    /\ pc = "querying"
    /\ Len(tables) < Len(QueryOrder)
    /\ NextQuery = "query_line_codes"
    /\ tables' = Returned(NextQuery, OtherTable(NextQuery, QueryColumns(NextQuery), graph.others))
    /\ UNCHANGED <<pc, graph, warnings, qryOthers>>

QueryBatteries ==
    /\ pc = "querying"
    /\ Len(tables) < Len(QueryOrder)
    /\ NextQuery = "query_batteries"
    /\ tables' = Returned(NextQuery, OtherTable(NextQuery, QueryColumns(NextQuery), graph.others))
    /\ UNCHANGED <<pc, graph, warnings, qryOthers>>

QueryPassThrough ==
    /\ pc = "querying"
    /\ Len(tables) < Len(QueryOrder)
    /\ NextQuery \in PassThroughQueries
    /\ tables' = Returned(NextQuery,
                          OtherTable(NextQuery, QueryColumns(NextQuery), graph.others))
    /\ UNCHANGED <<pc, graph, warnings, qryOthers>>

QueriesDone ==
    /\ pc = "querying"
    /\ Len(tables) = Len(QueryOrder)
    /\ pc' = "queried"
    /\ UNCHANGED <<qryVars, qryOthers>>

QryNext ==
    \/ QueryDistributionBuses
    \/ QueryLineSegments
    \/ QueryLoadBreakSwitches
    \/ QueryLineCodes
    \/ QueryBatteries
    \/ QueryPassThrough
    \/ QueriesDone

SpecQuery == QryInit /\ [][QryNext]_vars

\* The entities a query's rows are about, and the column naming them.
EntitiesOf(q) == IF q = "query_line_segments" THEN graph.lines ELSE graph.switches
NameKey(q) == IF q = "query_line_segments" THEN "line" ELSE "switch_name"

\* C9: a line or switch has a row in the result of its query exactly when
\* its terminals name exactly two distinct buses, and it has been warned
\* about exactly when it has none.
EndpointRowIffTwoDistinctBuses ==
    \A t \in DOMAIN tables :
        (tables[t].query \in {"query_line_segments", "query_load_break_switches"}) =>
            LET q == tables[t].query
                es == EntitiesOf(q)
            IN \A k \in DOMAIN es :
                  LET has_row == \E r \in DOMAIN tables[t].rows :
                                     tables[t].rows[r][NameKey(q)] = es[k].name
                      warned == [query |-> q, name |-> es[k].name] \in warnings
                  IN /\ has_row <=> (Cardinality(Range(es[k].buses)) = 2)
                     /\ warned <=> ~has_row

\* C10: every frame the query layer returned has the column list expected
\* of its query, with rows or without.
EveryQueryReturnsExpectedColumns ==
    \A t \in DOMAIN tables : tables[t].columns = ExpectedColumns(tables[t].query)

----------------------------------------------------------------------------
(* Specification SpecPhase: _sorted_phase_string of the CIM queries.  A     *)
(* string is the sequence of its characters; None is [none |-> TRUE].      *)

MaxPhaseValues == 3

None == [none |-> TRUE, text |-> <<>>]
Text(chars) == [none |-> FALSE, text |-> chars]

phase_order == <<"A", "B", "C", "N">>

\* str.upper() on the characters a phase token is made of.
Upper(ch) ==
    CASE ch = "a" -> "A"
      [] ch = "b" -> "B"
      [] ch = "c" -> "C"
      [] ch = "n" -> "N"
      [] ch = "s" -> "S"
      [] OTHER -> ch

\* The tokens the phase column of a query holds: single phases in either
\* case, secondary phases, a comma-separated pair, and None.
PhaseTokens ==
    {None, Text(<<"A">>), Text(<<"B">>), Text(<<"C">>), Text(<<"N">>),
     Text(<<"a">>), Text(<<"s", "1">>), Text(<<"B", ",", "C">>)}

\* str(raw_phase).replace(",", "").upper()
PhaseText(raw_phase) ==
    LET NotComma(ch) == ch # ","
        kept == SelectSeq(raw_phase.text, NotComma)
    IN [k \in DOMAIN kept |-> Upper(kept[k])]

\* ",".join(parts)
RECURSIVE Join(_)
Join(parts) ==
    IF Len(parts) = 0 THEN <<>>
    ELSE IF Len(parts) = 1 THEN <<parts[1]>>
    ELSE <<parts[1], ",">> \o Join(Tail(parts))

\* The loop of _sorted_phase_string over phase_values.
PhaseSet(values) ==
    UNION {Range(PhaseText(values[k])) \cap Range(phase_order) :
              k \in {j \in DOMAIN values : ~values[j].none}}

\* The letters of the input in order of first appearance.
RECURSIVE FirstAppearance(_)
FirstAppearance(values) ==
    IF values = <<>> THEN <<>>
    ELSE LET init == FirstAppearance(SubSeq(values, 1, Len(values) - 1))
             last == values[Len(values)]
             InOrder(ch) == ch \in Range(phase_order) /\ ch \notin Range(init)
         IN IF last.none THEN init
            ELSE init \o Unique(SelectSeq(PhaseText(last), InOrder))

\* The result with the letters left in input order.
SortedPhaseStringInputOrder(values) ==
    IF FirstAppearance(values) = <<>> THEN None
    ELSE Text(Join(FirstAppearance(values)))

\* _sorted_phase_string(phase_values)
SortedPhaseString(values) ==
    LET InSet(phase) == phase \in PhaseSet(values)
        ordered_phases == SelectSeq(phase_order, InSet)
    IN IF ordered_phases = <<>> THEN None ELSE Text(Join(ordered_phases))

PhInit ==
    /\ pc = "phases_given"
    /\ phase_values \in SeqsUpTo(PhaseTokens, MaxPhaseValues)
    /\ phase_string = None
    /\ CoreIdle
    /\ WdIdle
    /\ RdIdle
    /\ WrIdle
    /\ CvIdle

SortPhases ==
    /\ pc = "phases_given"
    /\ phase_string' = SortedPhaseString(phase_values)
    /\ pc' = "phases_sorted"
    /\ UNCHANGED <<phase_values, phOthers>>

PhNext == SortPhases

SpecPhase == PhInit /\ [][PhNext]_vars

\* The letters of A, B, C, N that occur in some token, in either case.
LettersPresent(values) ==
    {phase_order[p] : p \in {q \in DOMAIN phase_order :
        \E k \in DOMAIN values :
            /\ ~values[k].none
            /\ \E j \in DOMAIN values[k].text : Upper(values[k].text[j]) = phase_order[q]}}

CanonicalLetters(values) ==
    LET Present(phase) == phase \in LettersPresent(values)
    IN SelectSeq(phase_order, Present)

\* The rearrangements of a list, and the list with every token repeated.
Rearranged(values) ==
    {[k \in DOMAIN values |-> values[f[k]]] : f \in Permutations(DOMAIN values)}

\* C11 (as the code has it): the result is the comma-joined canonical
\* subsequence of the letters present, or None when no letter of A, B, C, N
\* is present; it is the same for every rearrangement of the tokens and for
\* the list with its tokens repeated.
SortedPhaseStringIsCanonical ==
    (pc = "phases_sorted") =>
        /\ phase_string =
              IF LettersPresent(phase_values) = {} THEN None
              ELSE Text(Join(CanonicalLetters(phase_values)))
        /\ \A other \in Rearranged(phase_values) :
              SortedPhaseString(other) = phase_string
        /\ SortedPhaseString(phase_values \o phase_values) = phase_string

\* C11 (as stated): the result is always the comma-joined canonical
\* subsequence of the letters present.
SortedPhaseStringIsAlwaysJoined ==
    (pc = "phases_sorted") =>
        phase_string = Text(Join(CanonicalLetters(phase_values)))

\* C11 witness: C, A, A has been mapped to A,C.
PhasesCAAGiveAC ==
    /\ pc = "phases_sorted"
    /\ phase_values = <<Text(<<"C">>), Text(<<"A">>), Text(<<"A">>)>>
    /\ phase_string = Text(<<"A", ",", "C">>)

----------------------------------------------------------------------------
(* The CIM writer: Writer._populate_core_graph and the equipment emitters. *)
(* A document is the sequence of the identified objects created in it; an  *)
(* identifier is the pair (kind, key) that _deterministic_id hashes.       *)

VoltageSource == "DistributionVoltageSource"
Regulator == "DistributionRegulator"
Solar == "DistributionSolar"
Fuse == "MatrixImpedanceFuse"
GeometryBranch == "GeometryBranch"

SUPPORTED_COMPONENT_TYPES ==
    {Bus, VoltageSource, Load, Branch, Xfmr, Regulator, Capacitor, Switch, Solar, Battery, Fuse}

\* The parts of a name token: the name "X_power" is the text that
\* f"{name}_power" gives for the name "X".
NameParts(token) == IF token = "X_power" THEN <<"X", "power">> ELSE <<token>>

\* The text of a key, part by part.
RECURSIVE KeyText(_)
KeyText(key) == IF key = <<>> THEN <<>> ELSE NameParts(Head(key)) \o KeyText(Tail(key))

\* _deterministic_id(kind, name): uuid5 of "ditto-cim:{kind}:{name}".
DeterministicId(kind, name) == <<"ditto-cim", kind>> \o KeyText(name)

\* _create_identified_object
IdentifiedObject(class, obj_id, name, refs) ==
    [class |-> class, id |-> obj_id, name |-> name, refs |-> refs]

\* _create_bus_objects: node, location and position point of every bus.
CreateBusObjects(bs) ==
    LET Objects(bus) ==
          <<IdentifiedObject("ConnectivityNode", DeterministicId("connectivity_node", <<bus.name>>),
                             <<bus.name>>, {}),
            IdentifiedObject("Location", DeterministicId("location", <<bus.name>>),
                             <<"Location", bus.name>>, {}),
            IdentifiedObject("PositionPoint", DeterministicId("position_point", <<bus.name>>),
                             <<"Position", bus.name>>,
                             {<<"PositionPoint.Location", DeterministicId("location", <<bus.name>>)>>})>>
        RECURSIVE All(_)
        All(k) == IF k > Len(bs) THEN <<>> ELSE Objects(bs[k]) \o All(k + 1)
    IN All(1)

\* _create_terminal(root, equipment_id, node_id, suffix, with_limits)
CreateTerminal(equipment_id, bus_name, suffix, with_limits) ==
    LET terminal_id == DeterministicId("terminal", equipment_id \o suffix)
        limit_set_id == DeterministicId("operational_limit_set", terminal_id)
        terminal ==
            IdentifiedObject("Terminal", terminal_id, <<"Terminal">> \o suffix,
                {<<"Terminal.ConductingEquipment", equipment_id>>,
                 <<"Terminal.ConnectivityNode",
                   DeterministicId("connectivity_node", <<bus_name>>)>>}
                \cup (IF with_limits
                      THEN {<<"ACDCTerminal.OperationalLimitSet", limit_set_id>>}
                      ELSE {}))
    IN IF ~with_limits THEN <<terminal>>
       ELSE <<terminal,
              IdentifiedObject("OperationalLimitSet", limit_set_id, <<"LimitSet">> \o suffix,
                  {<<"OperationalLimitSet.Terminal", terminal_id>>}),
              IdentifiedObject("CurrentLimit",
                  DeterministicId("current_limit", terminal_id \o <<"normal">>),
                  <<"CurrentLimitNormal">> \o suffix,
                  {<<"OperationalLimit.OperationalLimitSet", limit_set_id>>}),
              IdentifiedObject("CurrentLimit",
                  DeterministicId("current_limit", terminal_id \o <<"emergency">>),
                  <<"CurrentLimitEmergency">> \o suffix,
                  {<<"OperationalLimit.OperationalLimitSet", limit_set_id>>})>>

\* The class of the equipment element of each kind and the kind its
\* identifier is built from.
EquipmentClass(kind) ==
    CASE kind = VoltageSource -> <<"EnergySource", "energy_source">>
      [] kind = Load -> <<"EnergyConsumer", "energy_consumer">>
      [] kind = Branch -> <<"ACLineSegment", "line_segment">>
      [] kind = Xfmr -> <<"PowerTransformer", "power_transformer">>
      [] kind = Regulator -> <<"PowerTransformer", "power_transformer">>
      [] kind = Capacitor -> <<"LinearShuntCompensator", "linear_shunt_compensator">>
      [] kind = Switch -> <<"LoadBreakSwitch", "load_break_switch">>
      [] kind = Solar -> <<"PowerElectronicsConnection", "power_electronics_connection">>
      [] kind = Battery -> <<"PowerElectronicsConnection", "power_electronics_connection">>
      [] kind = Fuse -> <<"Fuse", "fuse">>

\* The name the equipment element is created under and the key of its
\* identifier: a regulator's transformer is "<name>_power", a battery's
\* connection is keyed "battery:<name>".
EquipmentName(c) == IF c.kind = Regulator THEN <<c.name, "power">> ELSE <<c.name>>
EquipmentKey(c) ==
    IF c.kind = Battery THEN <<"battery", c.name>> ELSE EquipmentName(c)

EquipmentId(c) == DeterministicId(EquipmentClass(c.kind)[2], EquipmentKey(c))

\* The elements an emitter creates besides the equipment and its terminals.
CompanionObjects(c) ==
    LET Named(class, kind) == IdentifiedObject(class, DeterministicId(kind, <<c.name>>), <<c.name>>, {})
        Phase(class, kind, key, ref) ==
            IdentifiedObject(class, DeterministicId(kind, key \o <<"1">>), <<c.name, "A">>,
                             {<<ref, EquipmentId(c)>>})
    IN CASE c.kind = Load ->
              <<Named("LoadResponseCharacteristic", "load_response"),
                Phase("EnergyConsumerPhase", "energy_consumer_phase", <<c.name>>,
                      "EnergyConsumerPhase.EnergyConsumer")>>
         [] c.kind = Branch ->
              <<Phase("ACLineSegmentPhase", "line_segment_phase", <<c.name>>,
                      "ACLineSegmentPhase.ACLineSegment")>>
         [] c.kind = Capacitor ->
              <<Phase("LinearShuntCompensatorPhase", "linear_shunt_compensator_phase",
                      <<c.name>>, "ShuntCompensatorPhase.ShuntCompensator")>>
         [] c.kind = Solar ->
              <<Named("PhotoVoltaicUnit", "photovoltaic_unit"),
                Phase("PowerElectronicsConnectionPhase", "power_electronics_connection_phase",
                      <<c.name>>, "PowerElectronicsConnectionPhase.PowerElectronicsConnection")>>
         [] c.kind = Battery ->
              <<Named("BatteryUnit", "battery_unit"),
                Phase("PowerElectronicsConnectionPhase", "power_electronics_connection_phase",
                      <<"battery", c.name>>,
                      "PowerElectronicsConnectionPhase.PowerElectronicsConnection")>>
         [] c.kind = Xfmr ->
              <<IdentifiedObject("PowerTransformerEnd",
                    DeterministicId("power_transformer_end", <<c.name, "1">>), <<c.name, "End", "1">>,
                    {<<"PowerTransformerEnd.PowerTransformer", EquipmentId(c)>>}),
                IdentifiedObject("PowerTransformerEnd",
                    DeterministicId("power_transformer_end", <<c.name, "2">>), <<c.name, "End", "2">>,
                    {<<"PowerTransformerEnd.PowerTransformer", EquipmentId(c)>>}),
                IdentifiedObject("TransformerMeshImpedance",
                    DeterministicId("transformer_mesh_impedance", <<c.name>>), <<c.name>>, {})>>
         [] c.kind = Regulator ->
              <<IdentifiedObject("PowerTransformerEnd",
                    DeterministicId("power_transformer_end", <<c.name, "power", "1">>),
                    <<c.name, "power", "End", "1">>,
                    {<<"PowerTransformerEnd.PowerTransformer", EquipmentId(c)>>}),
                IdentifiedObject("PowerTransformerEnd",
                    DeterministicId("power_transformer_end", <<c.name, "power", "2">>),
                    <<c.name, "power", "End", "2">>,
                    {<<"PowerTransformerEnd.PowerTransformer", EquipmentId(c)>>}),
                IdentifiedObject("TransformerMeshImpedance",
                    DeterministicId("transformer_mesh_impedance", <<c.name, "power">>),
                    <<c.name, "power">>, {}),
                IdentifiedObject("TransformerTank",
                    DeterministicId("transformer_tank", <<c.name>>), <<c.name>>,
                    {<<"TransformerTank.PowerTransformer", EquipmentId(c)>>}),
                Named("RatioTapChanger", "ratio_tap_changer"),
                Named("TapChangerControl", "tap_changer_control")>>
         [] OTHER -> <<>>


\* The kinds with a single bus attribute.
SingleBusKinds == {VoltageSource, Load, Capacitor, Solar, Battery}

\* The bus tests of _populate_core_graph and of the emitters it calls
\* without one: the bus, or the first two buses, have a node in this
\* document.
HasEmittedBuses(c, nodes) ==
    /\ c.kind \in SUPPORTED_COMPONENT_TYPES \ {Bus}
    /\ IF c.kind \in SingleBusKinds THEN c.buses[1] \in nodes
       ELSE /\ Len(c.buses) >= 2
            /\ c.buses[1] \in nodes
            /\ c.buses[2] \in nodes

\* str(k) of a list position.
ToText(k) == <<"1", "2", "3", "4">>[k]

\* The identifier numbered by the component's position in its list.
EmitComponentNumbered(c, k) ==
    LET id == DeterministicId(EquipmentClass(c.kind)[2], <<ToText(k)>>)
    IN <<IdentifiedObject(EquipmentClass(c.kind)[1], id, EquipmentName(c), {})>>
       \o CreateTerminal(id, c.buses[1], <<ToText(k), "1">>, FALSE)

\* One emitter call for the k-th component of its list: the equipment
\* element, its companions and a terminal on each of the first two buses.
EmitComponent(c, k) ==
    <<IdentifiedObject(EquipmentClass(c.kind)[1], EquipmentId(c), EquipmentName(c),
          {<<"PowerSystemResource.Location", DeterministicId("location", <<c.buses[1]>>)>>})>>
    \o CompanionObjects(c)
    \o CreateTerminal(EquipmentId(c), c.buses[1], EquipmentName(c) \o <<"1">>, c.kind = Branch)
    \o (IF c.kind \in SingleBusKinds THEN <<>>
        ELSE CreateTerminal(EquipmentId(c), c.buses[2], EquipmentName(c) \o <<"2">>,
                            c.kind = Branch))

\* The component lists of _populate_core_graph in the order they are emitted.
PopulateOrder ==
    <<VoltageSource, Load, Branch, Xfmr, Regulator, Capacitor, Switch, Solar, Battery, Fuse>>

OfKind(components, kind) ==
    LET IsKind(c) == c.kind = kind IN SelectSeq(components, IsKind)

\* _create_base_voltage and emit_line_code: created on first use.
SharedObjects(c, seen) ==
    LET base_voltage == IdentifiedObject("BaseVoltage",
                            DeterministicId("base_voltage", <<"12470.400000">>),
                            <<"BaseVoltage", "12470">>, {})
        line_code == IdentifiedObject("PerLengthPhaseImpedance",
                            DeterministicId("per_length_impedance", <<"lc">>), <<"lc">>, {})
    IN (IF base_voltage.id \in seen THEN <<>> ELSE <<base_voltage>>)
       \o (IF c.kind = Branch /\ line_code.id \notin seen THEN <<line_code>> ELSE <<>>)

\* _populate_core_graph(root, components)
PopulateCoreGraph(components) ==
    LET bus_objects == CreateBusObjects(OfKind(components, Bus))
        nodes == {b.name : b \in Range(OfKind(components, Bus))}
        RECURSIVE EmitList(_, _, _)
        EmitList(list, k, elements) ==
            IF k > Len(list) THEN elements
            ELSE IF HasEmittedBuses(list[k], nodes)
                 THEN EmitList(list, k + 1,
                        elements
                        \o SharedObjects(list[k], {e.id : e \in Range(elements)})
                        \o EmitComponent(list[k], k))
                 ELSE EmitList(list, k + 1, elements)
        RECURSIVE EmitKinds(_, _)
        EmitKinds(j, elements) ==
            IF j > Len(PopulateOrder) THEN elements
            ELSE EmitKinds(j + 1, EmitList(OfKind(components, PopulateOrder[j]), 1, elements))
    IN EmitKinds(1, bus_objects)

\* Characters a group name is cleaned of; any other token of a name is an
\* alphanumeric run.
SpecialChars == {" ", "/", ".", ":"}

\* _safe_group_name
SafeGroupName(value) ==
    LET cleaned == [k \in DOMAIN value |-> IF value[k] \in SpecialChars THEN "_" ELSE value[k]]
        kept == {k \in DOMAIN cleaned : cleaned[k] # "_"}
    IN IF kept = {} THEN <<"unknown">>
       ELSE SubSeq(cleaned, CHOOSE k \in kept : \A j \in kept : k <= j,
                            CHOOSE k \in kept : \A j \in kept : j <= k)

\* _get_component_group
GetComponentGroup(c) ==
    <<SafeGroupName(IF c.substation = None THEN <<"default", "_", "substation">>
                    ELSE c.substation.text),
      SafeGroupName(IF c.feeder = None THEN <<"default", "_", "feeder">>
                    ELSE c.feeder.text)>>

\* _camel_to_snake of the supported class names.
CamelToSnake(kind) ==
    CASE kind = Bus -> <<"distribution", "_", "bus">>
      [] kind = VoltageSource -> <<"distribution", "_", "voltage", "_", "source">>
      [] kind = Load -> <<"distribution", "_", "load">>
      [] kind = Branch -> <<"matrix", "_", "impedance", "_", "branch">>
      [] kind = Xfmr -> <<"distribution", "_", "transformer">>
      [] kind = Regulator -> <<"distribution", "_", "regulator">>
      [] kind = Capacitor -> <<"distribution", "_", "capacitor">>
      [] kind = Switch -> <<"matrix", "_", "impedance", "_", "switch">>
      [] kind = Solar -> <<"distribution", "_", "solar">>
      [] kind = Battery -> <<"distribution", "_", "battery">>
      [] kind = Fuse -> <<"matrix", "_", "impedance", "_", "fuse">>

\* sorted(get_component_types(), key=__name__) and the components of each.
SortedTypeNames ==
    <<Battery, Bus, Capacitor, Load, Regulator, Solar, Xfmr, VoltageSource,
      GeometryBranch, Branch, Fuse, Switch>>

ComponentsByType(system) ==
    LET RECURSIVE Collect(_)
        Collect(j) == IF j > Len(SortedTypeNames) THEN <<>>
                      ELSE OfKind(system, SortedTypeNames[j]) \o Collect(j + 1)
    IN Collect(1)

\* _combine_with_required_buses
CombineWithRequiredBuses(components, group_buses) ==
    LET bus_names == {b.name : b \in Range(group_buses)}
        seen0 == {<<b.kind, b.name>> : b \in Range(group_buses)}
        RECURSIVE Merge(_, _, _)
        Merge(k, merged, seen) ==
            IF k > Len(components) THEN merged
            ELSE LET c == components[k]
                     key == <<c.kind, c.name>>
                 IN IF key \in seen THEN Merge(k + 1, merged, seen)
                    ELSE IF c.kind = Bus \/ \A j \in DOMAIN c.buses : c.buses[j] \in bus_names
                         THEN Merge(k + 1, Append(merged, c), seen \cup {key})
                         ELSE Merge(k + 1, merged, seen \cup {key})
    IN Merge(1, group_buses, seen0)


\* Every value of a list, repeated ones included.
InsertionOrderWithRepeats(values) == values

\* The distinct values of a list in the order they first appear (dict keys).
InsertionOrder(values) ==
    LET First(k) == \A j \in 1..(k - 1) : values[j] # values[k]
        RECURSIVE Keep(_)
        Keep(k) == IF k > Len(values) THEN <<>>
                   ELSE (IF First(k) THEN <<values[k]>> ELSE <<>>) \o Keep(k + 1)
    IN Keep(1)

\* The file of one group or of one bucket of it, with its manifest entry.
ModelFile(group, suffix, type, components) ==
    [path |-> <<group[1], group[2],
                group[1] \o <<"__">> \o group[2] \o suffix \o <<".xml">>>>,
     elements |-> PopulateCoreGraph(components),
     entry |-> [substation |-> group[1], feeder |-> group[2], type |-> type,
                path |-> <<group[1], group[2],
                           group[1] \o <<"__">> \o group[2] \o suffix \o <<".xml">>>>]]

\* The files of one group of write() in package mode.
GroupFiles(group, group_components, separate_equipment_types) ==
    IF ~separate_equipment_types
    THEN <<ModelFile(group, <<>>, <<"all">>, group_components)>>
    ELSE LET group_buses == OfKind(group_components, Bus)
             Supported(c) == c.kind \in SUPPORTED_COMPONENT_TYPES
             bucketed == SelectSeq(group_components, Supported)
             keys == InsertionOrder([k \in DOMAIN bucketed |-> bucketed[k].kind])
         IN [k \in DOMAIN keys |->
               ModelFile(group, <<"__">> \o CamelToSnake(keys[k]), <<keys[k]>>,
                         CombineWithRequiredBuses(OfKind(bucketed, keys[k]), group_buses))]

\* Writer.write(output_path, output_mode, separate_substations,
\* separate_feeders, separate_equipment_types)
Write(system, options) ==
    LET all_components == ComponentsByType(system)
        GroupKey(c) ==
            <<IF options.separate_substations THEN GetComponentGroup(c)[1]
              ELSE <<"all", "_", "substations">>,
              IF options.separate_feeders THEN GetComponentGroup(c)[2]
              ELSE <<"all", "_", "feeders">>>>
        group_keys == InsertionOrder([k \in DOMAIN all_components |-> GroupKey(all_components[k])])
        Members(group) ==
            LET Is(c) == GroupKey(c) = group IN SelectSeq(all_components, Is)
        RECURSIVE Package(_)
        Package(k) ==
            IF k > Len(group_keys) THEN <<>>
            ELSE GroupFiles(group_keys[k], Members(group_keys[k]), options.separate_equipment_types)
                 \o Package(k + 1)
        Strip(model_file) == [path |-> model_file.path, elements |-> model_file.elements]
    IN IF options.output_mode = "single"
       THEN [files |-> <<[path |-> <<<<"model", ".xml">>>>,
                          elements |-> PopulateCoreGraph(all_components)]>>,
             manifest |-> <<>>, raised |-> FALSE]
       ELSE IF options.output_mode # "package"
       THEN [files |-> <<>>, manifest |-> <<>>, raised |-> TRUE]
       ELSE [files |-> [k \in DOMAIN Package(1) |-> Strip(Package(1)[k])],
             manifest |-> [k \in DOMAIN Package(1) |-> Package(1)[k].entry],
             raised |-> FALSE]


MaxWriteComps == 2

\* The feeders a bus or a component can belong to.
FeederOptions == {None, Text(<<"f1">>), Text(<<"f", " ", "2">>)}

WriterBus(name, feeder) ==
    [kind |-> Bus, name |-> name, buses |-> <<>>, substation |-> None, feeder |-> feeder]

\* The bus lists a component of each kind can have over buses b1, b2, b3.
BusLists(kind) ==
    IF kind \in SingleBusKinds THEN {<<"b1">>, <<"b3">>}
    ELSE IF kind \in {Xfmr, Regulator}
         THEN {<<"b1", "b2">>, <<"b1", "b3">>, <<"b1", "b2", "b3">>}
         ELSE {<<"b1", "b2">>, <<"b1", "b3">>}

WriterComponents(name) ==
    {[kind |-> kind, name |-> name, buses |-> bus_list, substation |-> None, feeder |-> feeder] :
        kind \in (SUPPORTED_COMPONENT_TYPES \ {Bus}) \cup {GeometryBranch},
        bus_list \in UNION {BusLists(k) : k \in SUPPORTED_COMPONENT_TYPES \cup {GeometryBranch}},
        feeder \in {None, Text(<<"f1">>)}}

\* The place of a kind in the sorted component types.
TypeRank(kind) == CHOOSE j \in DOMAIN SortedTypeNames : SortedTypeNames[j] = kind

\* Systems of three buses, the third in either named feeder, and up to
\* MaxWriteComps components named by their place; the components of a
\* type are listed together, as get_components(type) returns them.
WriterSystems ==
    {<<WriterBus("b1", Text(<<"f1">>)), WriterBus("b2", Text(<<"f1">>)), WriterBus("b3", f)>> \o cs :
        f \in FeederOptions \ {None},
        cs \in {s \in SeqsUpTo(WriterComponents("X") \cup WriterComponents("y"), MaxWriteComps) :
                  \A k \in DOMAIN s :
                     /\ s[k].name = <<"X", "y", "z">>[k]
                     /\ s[k].buses \in BusLists(s[k].kind)
                     /\ \A j \in 1..(k - 1) : TypeRank(s[j].kind) <= TypeRank(s[k].kind)}}

WriteOptions ==
    {[output_mode |-> mode, separate_substations |-> TRUE, separate_feeders |-> TRUE,
      separate_equipment_types |-> TRUE] : mode \in {"single", "zip"}}
    \cup
    {[output_mode |-> "package", separate_substations |-> s, separate_feeders |-> f,
      separate_equipment_types |-> t] : s \in BOOLEAN, f \in BOOLEAN, t \in BOOLEAN}

WrInit ==
    /\ pc = "write_ready"
    /\ wsystem \in WriterSystems
    /\ woptions \in WriteOptions
    /\ written = NothingWritten
    /\ rewritten = NothingWritten
    /\ read_names = <<>>
    /\ CoreIdle
    /\ WdIdle
    /\ RdIdle
    /\ PhIdle
    /\ CvIdle

\* Writer(system).write(...)
WriteModel ==
    /\ pc = "write_ready"
    /\ written' = Write(wsystem, woptions)
    /\ pc' = "written"
    /\ UNCHANGED <<wsystem, woptions, rewritten, read_names, wrOthers>>

\* A second write of the same system with the same options.
WriteAgain ==
    /\ pc = "written"
    /\ rewritten' = Write(wsystem, woptions)
    /\ pc' = "rewritten"
    /\ UNCHANGED <<wsystem, woptions, written, read_names, wrOthers>>

WrNext == WriteModel \/ WriteAgain

SpecWrite == WrInit /\ [][WrNext]_vars


\* The connectivity nodes of a written document.
DocumentNodes(doc) ==
    {e.id : e \in {x \in Range(doc.elements) : x.class = "ConnectivityNode"}}

\* The equipment of the system other than its buses.
WrittenEquipment ==
    {c \in Range(wsystem) : c.kind \in SUPPORTED_COMPONENT_TYPES \ {Bus}}

MissingABus(c, doc) ==
    \E j \in DOMAIN c.buses :
        DeterministicId("connectivity_node", <<c.buses[j]>>) \notin DocumentNodes(doc)

EmittedFor(c, doc) == \E e \in Range(doc.elements) : e.id = EquipmentId(c)

\* Every terminal of every written document refers to a connectivity node
\* of the same document.
TerminalsReferToEmittedNodes ==
    \A k \in DOMAIN written.files :
        \A e \in Range(written.files[k].elements) :
            e.class = "Terminal" =>
                \E r \in e.refs : r[1] = "Terminal.ConnectivityNode"
                                  /\ r[2] \in DocumentNodes(written.files[k])

\* C12: in every document the writer produces, a component of any kind
\* one of whose endpoint buses is not emitted in that document produces no
\* elements and no error, and every emitted terminal refers to a
\* connectivity node emitted in the same document.
ComponentMissingABusEmitsNothing ==
    /\ ~written.raised \/ woptions.output_mode \notin {"single", "package"}
    /\ TerminalsReferToEmittedNodes
    /\ \A k \in DOMAIN written.files :
          \A c \in WrittenEquipment :
              MissingABus(c, written.files[k]) => ~EmittedFor(c, written.files[k])


Reverse(s) == [k \in DOMAIN s |-> s[Len(s) + 1 - k]]

\* The identified elements of each file of a write, without their order.
IdentifiedFiles(result) ==
    {<<result.files[k].path,
       {<<e.class, e.id, e.name>> : e \in Range(result.files[k].elements)}>> :
        k \in DOMAIN result.files}

ClassesOfType(type) ==
    IF type = <<"all">> THEN {EquipmentClass(k)[1] : k \in SUPPORTED_COMPONENT_TYPES \ {Bus}}
    ELSE IF type = <<Bus>> THEN {}
    ELSE {EquipmentClass(type[1])[1]}

EquipmentClasses == ClassesOfType(<<"all">>)

\* The file name the manifest fields of an entry stand for.
EntryFileName(entry) ==
    entry.substation \o <<"__">> \o entry.feeder
    \o (IF entry.type = <<"all">> THEN <<>> ELSE <<"__">> \o CamelToSnake(entry.type[1]))
    \o <<".xml">>

\* C14: in package mode the manifest holds exactly one entry for every
\* model file written and none for a file not written; the entry carries
\* the substation, the feeder and the component kind of the file and its
\* path relative to the output folder.
ManifestListsExactlyTheWrittenFiles ==
    (pc # "write_ready" /\ woptions.output_mode = "package") =>
        /\ ~written.raised
        /\ \A k \in DOMAIN written.files :
              /\ Cardinality({j \in DOMAIN written.manifest :
                    written.manifest[j].path = written.files[k].path}) = 1
              /\ \A j \in DOMAIN written.files :
                    j # k => written.files[j].path # written.files[k].path
        /\ \A j \in DOMAIN written.manifest :
              LET entry == written.manifest[j]
              IN \E k \in DOMAIN written.files :
                    /\ written.files[k].path = entry.path
                    /\ entry.path = <<entry.substation, entry.feeder, EntryFileName(entry)>>
                    /\ \A e \in Range(written.files[k].elements) :
                          e.class \in EquipmentClasses => e.class \in ClassesOfType(entry.type)

\* C14 witness: a package split by equipment type has been written for a
\* system that also holds a component of an unsupported type; it has
\* three files or more and as many manifest entries.
PackageByTypeWithUnsupportedComponent ==
    /\ pc = "written"
    /\ woptions.output_mode = "package"
    /\ woptions.separate_equipment_types
    /\ \E k \in DOMAIN wsystem : wsystem[k].kind = GeometryBranch
    /\ Len(written.files) >= 3
    /\ Len(written.manifest) = Len(written.files)


\* ---------------------------------------------------------------------
\* convert_model of the MCP server
\* ---------------------------------------------------------------------

\* _list_subpackages("ditto.readers") and _list_subpackages("ditto.writers")
available_readers == <<"cim_iec_61968_13", "cyme", "opendss">>
available_writers == <<"cim_iec_61968_13", "opendss">>

\* The kinds a caller may ask for.
RequestedKinds == {"cim_iec_61968_13", "cyme", "opendss", "nonexistent_format"}

\* The registration test that looks at the reader only.
UnknownKindReaderOnly(req) ==
    IF req.reader_type \notin Range(available_readers)
    THEN [raised |-> TRUE,
          message |-> <<"Unknown reader", req.reader_type, available_readers>>]
    ELSE NoResult

\* The two registration tests of convert_model, the reader's first.
UnknownKind(req) ==
    IF req.reader_type \notin Range(available_readers)
    THEN [raised |-> TRUE,
          message |-> <<"Unknown reader", req.reader_type, available_readers>>]
    ELSE IF req.writer_type \notin Range(available_writers)
    THEN [raised |-> TRUE,
          message |-> <<"Unknown writer", req.writer_type, available_writers>>]
    ELSE NoResult

CvInit ==
    /\ pc = "convert_called"
    /\ conv_request \in [reader_type : RequestedKinds, writer_type : RequestedKinds,
                         save_gdm : BOOLEAN, input_readable : BOOLEAN,
                         output_writable : BOOLEAN]
    /\ conv_log = <<>>
    /\ conv_result = NoResult
    /\ CoreIdle
    /\ WdIdle
    /\ RdIdle
    /\ PhIdle
    /\ WrIdle

\* The tests on reader_type and writer_type.
CheckKinds ==
    /\ pc = "convert_called"
    /\ conv_result' = UnknownKind(conv_request)
    /\ pc' = IF UnknownKind(conv_request).raised THEN "convert_failed" ELSE "kinds_checked"
    /\ UNCHANGED <<conv_request, conv_log, cvOthers>>

\* ReaderClass(input_path), reader_instance.read() and get_system().
ReadInput ==
    /\ pc = "kinds_checked"
    /\ IF conv_request.input_readable
       THEN /\ conv_log' = conv_log \o <<"reader_constructed", "input_read">>
            /\ pc' = "model_read"
            /\ UNCHANGED conv_result
       ELSE /\ conv_log' = Append(conv_log, "reader_constructed")
            /\ conv_result' = [raised |-> TRUE, message |-> <<"read failed">>]
            /\ pc' = "convert_failed"
    /\ UNCHANGED <<conv_request, cvOthers>>

\* system.to_json when save_gdm is given, then the writer: imported,
\* constructed and asked to write into the output folder.
WriteOutput ==
    /\ pc = "model_read"
    /\ LET saved == IF conv_request.save_gdm THEN Append(conv_log, "gdm_saved") ELSE conv_log
       IN IF conv_request.writer_type \notin Range(available_writers)
          THEN /\ conv_log' = saved
               /\ conv_result' = [raised |-> TRUE, message |-> <<"ModuleNotFoundError">>]
               /\ pc' = "convert_failed"
          ELSE IF ~conv_request.output_writable
          THEN /\ conv_log' = Append(saved, "writer_constructed")
               /\ conv_result' = [raised |-> TRUE, message |-> <<"write failed">>]
               /\ pc' = "convert_failed"
          ELSE /\ conv_log' = saved \o <<"writer_constructed", "output_written">>
               /\ conv_result' = [raised |-> FALSE,
                                  message |-> <<"Conversion complete", conv_request.reader_type,
                                                conv_request.writer_type>>]
               /\ pc' = "converted"
    /\ UNCHANGED <<conv_request, cvOthers>>

CvNext == CheckKinds \/ ReadInput \/ WriteOutput

SpecConvert == CvInit /\ [][CvNext]_vars

ROUNDTRIP_COMPONENT_TYPES ==
    {Bus, VoltageSource, Load, Branch, Xfmr, Regulator, Capacitor, Switch}

ElementsOfClass(doc, class) == {e \in Range(doc.elements) : e.class = class}

Refs(e, property) == {r[2] : r \in {x \in e.refs : x[1] = property}}

\* ?term cim:Terminal.ConductingEquipment ?equip . ?term
\* cim:Terminal.ConnectivityNode ?node . ?node cim:IdentifiedObject.name ?node_name
TerminalNodeNames(doc, equipment) ==
    {n.name : n \in {x \in ElementsOfClass(doc, "ConnectivityNode") :
        \E t \in ElementsOfClass(doc, "Terminal") :
            /\ equipment.id \in Refs(t, "Terminal.ConductingEquipment")
            /\ x.id \in Refs(t, "Terminal.ConnectivityNode")}}

\* The names each query of the reader returns from a document.
QueriedNames(doc, kind) ==
    CASE kind = Bus ->
           UNION {TerminalNodeNames(doc, e) : e \in Range(doc.elements)}
      [] kind \in {Branch, Switch} ->
           {e.name : e \in {x \in ElementsOfClass(doc, EquipmentClass(kind)[1]) :
                               Cardinality(TerminalNodeNames(doc, x)) >= 2}}
      [] kind = Xfmr ->
           {e.name : e \in {x \in ElementsOfClass(doc, "PowerTransformer") :
               /\ TerminalNodeNames(doc, x) # {}
               /\ \E end \in ElementsOfClass(doc, "PowerTransformerEnd") :
                     x.id \in Refs(end, "PowerTransformerEnd.PowerTransformer")
               /\ ~\E tank \in ElementsOfClass(doc, "TransformerTank") :
                     x.id \in Refs(tank, "TransformerTank.PowerTransformer")}}
      [] kind = Regulator ->
           {tank.name : tank \in {x \in ElementsOfClass(doc, "TransformerTank") :
               \E power \in ElementsOfClass(doc, "PowerTransformer") :
                   /\ power.id \in Refs(x, "TransformerTank.PowerTransformer")
                   /\ TerminalNodeNames(doc, power) # {}}}
      [] OTHER ->
           {e.name : e \in {x \in ElementsOfClass(doc, EquipmentClass(kind)[1]) :
                               TerminalNodeNames(doc, x) # {}}}

\* str.lower of the names of the model.
Lower(name) == [k \in DOMAIN name |-> IF name[k] = "X" THEN "x" ELSE name[k]]

\* CimReader(model.xml).read(): a component of each kind for every name
\* its query returns.
ReadSystem(doc) == [kind \in ROUNDTRIP_COMPONENT_TYPES |-> QueriedNames(doc, kind)]

RtInit ==
    /\ pc = "write_ready"
    /\ wsystem \in WriterSystems
    /\ woptions = [output_mode |-> "single", separate_substations |-> TRUE,
                   separate_feeders |-> TRUE, separate_equipment_types |-> TRUE]
    /\ written = NothingWritten
    /\ rewritten = NothingWritten
    /\ read_names = <<>>
    /\ CoreIdle
    /\ WdIdle
    /\ RdIdle
    /\ PhIdle
    /\ CvIdle

\* reader = CimReader(tmp_path / "model.xml"); reader.read()
ReadBack ==
    /\ pc = "written"
    /\ woptions.output_mode = "single"
    /\ read_names' = ReadSystem(written.files[1])
    /\ pc' = "read_back"
    /\ UNCHANGED <<wsystem, woptions, written, rewritten, wrOthers>>

RtNext == WriteModel \/ ReadBack

SpecRoundTrip == RtInit /\ [][RtNext]_vars

\* The names of the components of a kind in the system that was written.
OriginalNames(kind) ==
    {<<c.name>> : c \in {x \in Range(wsystem) : x.kind = kind}}

\* C16: writing a system to CIM and reading the document back preserves
\* the names, compared without regard to case, of the buses, voltage
\* sources, loads, lines, transformers, regulators, capacitors and switches.
RoundTripPreservesNames ==
    pc = "read_back" =>
        \A kind \in ROUNDTRIP_COMPONENT_TYPES :
            {Lower(n) : n \in OriginalNames(kind)}
                \subseteq {Lower(n) : n \in read_names[kind]}

\* The same for the equipment alone: every kind but the bus.
RoundTripPreservesEquipmentNames ==
    pc = "read_back" =>
        \A kind \in ROUNDTRIP_COMPONENT_TYPES \ {Bus} :
            {Lower(n) : n \in OriginalNames(kind)}
                \subseteq {Lower(n) : n \in read_names[kind]}


\* ---------------------------------------------------------------------
\* The passes of a CYME Reader.read after the components are built
\* ---------------------------------------------------------------------

MaxReadTypes == 3

\* The passes that can raise: assign_bus_voltages on a single-phase
\* source, network_truncation on an unset name list, _validate_model on a
\* recorded error.
RaisingPasses == {"assign_bus_voltages", "network_truncation", "_validate_model"}

\* The passes in the order the claim lists them.
ReadPassOrderVoltageFirst(opts) ==
    <<"assign_bus_voltages", "serialize_parallel_branches">>
    \o (IF opts.names_given THEN <<"network_truncation">> ELSE <<>>)

\* The calls of read() after the mapping loop, in order.
ReadPassOrder(opts) ==
    <<"serialize_parallel_branches", "assign_bus_voltages">>
    \o (IF opts.names_given THEN <<"network_truncation">> ELSE <<>>)

\* The passes that have returned.
EndedPasses(log) == {log[k][2] : k \in {j \in DOMAIN log : log[j][1] = "end"}}

\* The types _add_components has been called for.
AddedTypes(log) == {log[k][2] : k \in {j \in DOMAIN log : log[j][1] = "add"}}

\* The passes still to run.
RemainingPasses(log, opts) ==
    LET Left(p) == p \notin EndedPasses(log) IN SelectSeq(ReadPassOrder(opts), Left)

RdInit ==
    /\ pc = "components_built"
    /\ read_opts \in [names_given : BOOLEAN, raises : SUBSET RaisingPasses,
                      ntypes : 1..MaxReadTypes]
    /\ pass_log = <<>>
    /\ CoreIdle
    /\ WdIdle
    /\ PhIdle
    /\ WrIdle
    /\ CvIdle

\* The next call of read() is entered.
BeginPass ==
    /\ pc = "components_built"
    /\ RemainingPasses(pass_log, read_opts) # <<>>
    /\ pass_log' = Append(pass_log, <<"begin", RemainingPasses(pass_log, read_opts)[1]>>)
    /\ pc' = "in_pass"
    /\ UNCHANGED <<read_opts, rdOthers>>

\* The call returns, or raises and ends the read.
EndPass ==
    /\ pc = "in_pass"
    /\ LET pass == pass_log[Len(pass_log)][2]
       IN IF pass \in read_opts.raises
          THEN /\ pass_log' = Append(pass_log, <<"raise", pass>>)
               /\ pc' = "read_raised"
          ELSE /\ pass_log' = Append(pass_log, <<"end", pass>>)
               /\ pc' = "components_built"
    /\ UNCHANGED <<read_opts, rdOthers>>

\* "for component_type in self.system.get_component_types():
\*      self._add_components(components)"
ValidateComponentsOfType ==
    /\ pc = "components_built"
    /\ RemainingPasses(pass_log, read_opts) = <<>>
    /\ Cardinality(AddedTypes(pass_log)) < read_opts.ntypes
    /\ pass_log' = Append(pass_log, <<"add", Cardinality(AddedTypes(pass_log)) + 1>>)
    /\ UNCHANGED <<pc, read_opts, rdOthers>>

\* self._validate_model(): raises when an error was recorded; otherwise
\* read() returns and get_system() hands the model out.
ValidateRead ==
    /\ pc = "components_built"
    /\ RemainingPasses(pass_log, read_opts) = <<>>
    /\ Cardinality(AddedTypes(pass_log)) = read_opts.ntypes
    /\ IF "_validate_model" \in read_opts.raises
       THEN /\ pass_log' = Append(pass_log, <<"raise", "_validate_model">>)
            /\ pc' = "read_raised"
       ELSE /\ pass_log' = Append(pass_log, <<"end", "_validate_model">>)
            /\ pc' = "read_done"
    /\ UNCHANGED <<read_opts, rdOthers>>

RdNext == BeginPass \/ EndPass \/ ValidateComponentsOfType \/ ValidateRead

SpecRead == RdInit /\ [][RdNext]_vars

\* The passes begun so far, in the order they began.
BegunPasses(log) ==
    LET IsBegin(e) == e[1] = "begin"
        begun == SelectSeq(log, IsBegin)
    IN [k \in DOMAIN begun |-> begun[k][2]]

IsPrefix(s, t) == Len(s) <= Len(t) /\ \A k \in DOMAIN s : s[k] = t[k]

\* Every pass begun has ended before the next event, and nothing follows
\* a raise.
PassesDoNotInterleave ==
    \A k \in DOMAIN pass_log :
        /\ (pass_log[k][1] = "begin" /\ k < Len(pass_log))
              => /\ pass_log[k + 1][1] \in {"end", "raise"}
                 /\ pass_log[k + 1][2] = pass_log[k][2]
        /\ pass_log[k][1] = "raise" => k = Len(pass_log)

\* The re-validation begins only when every pass of the order has ended.
ValidatedAfter(order) ==
    \A k \in DOMAIN pass_log :
        (pass_log[k][1] = "add" \/ pass_log[k][2] = "_validate_model")
            => \A j \in DOMAIN order :
                  \E i \in 1..(k - 1) : pass_log[i] = <<"end", order[j]>>

\* C20 (as the code has it): after the components are constructed a CYME
\* read runs parallel-edge detection and bus-splitting first, then voltage
\* propagation, then the truncation when names were given, each to
\* completion before the next begins; the model is validated only after
\* these passes have ended, and a pass that raises ends the read.
PassesRunSerializeVoltageTruncation ==
    LET order == <<"serialize_parallel_branches", "assign_bus_voltages">>
                 \o (IF read_opts.names_given THEN <<"network_truncation">> ELSE <<>>)
    IN /\ IsPrefix(BegunPasses(pass_log), order)
       /\ PassesDoNotInterleave
       /\ ValidatedAfter(order)

\* C20 as stated: voltage propagation runs first, then parallel-edge
\* detection and bus-splitting, then the optional truncation, each to
\* completion before the next; only then is the model validated.
PassesRunVoltageSerializeTruncation ==
    LET order == <<"assign_bus_voltages", "serialize_parallel_branches">>
                 \o (IF read_opts.names_given THEN <<"network_truncation">> ELSE <<>>)
    IN /\ IsPrefix(BegunPasses(pass_log), order)
       /\ PassesDoNotInterleave
       /\ ValidatedAfter(order)

\* C20 witness: a read with names given has run its three passes and the
\* validation and has returned.
ReadReturnedAfterThreePasses ==
    /\ pc = "read_done"
    /\ read_opts.names_given
    /\ BegunPasses(pass_log) =
          <<"serialize_parallel_branches", "assign_bus_voltages", "network_truncation">>
    /\ pass_log[Len(pass_log)] = <<"end", "_validate_model">>

\* ---------------------------------------------------------------------
\* Further properties of Reader.serialize_parallel_branches
\* ---------------------------------------------------------------------

\* The orderings of a finite set of devices.
Orderings(D) ==
    {o \in [1..Cardinality(D) -> D] : \A d \in D : \E k \in DOMAIN o : o[k] = d}

\* The devices D, taken in some order, lead from bus "from" to bus "to",
\* each device used exactly once.
Trail(cs, nbuses, D, from, to) ==
    \E o \in Orderings(D) :
        \E v \in [1..(Cardinality(D) + 1) -> 1..nbuses] :
            /\ v[1] = from
            /\ v[Cardinality(D) + 1] = to
            /\ \A k \in DOMAIN o :
                  {cs[o[k]].buses[1], cs[o[k]].buses[2]} = {v[k], v[k + 1]}

\* The group handled by the next iteration of the group loop.
CurrentGroup == groups[gi + 1]

\* After the iteration for group g the non-transformers chain from the
\* first transformer's primary bus to the synthetic primary, and the
\* transformers join the synthetic primary to the secondary.
ChainedThroughTransformer(g) ==
    LET tr == Transformers(comps, g)
        nt == NonTransformers(comps, g)
        P == comps[tr[1]].buses[1]
        S == comps[tr[1]].buses[2]
    IN \E syn \in (DOMAIN buses') \ (DOMAIN buses) :
          /\ buses'[syn].name = buses[P].name \o <<"primary">>
          /\ Trail(comps', Len(buses'), Range(nt), P, syn)
          /\ \A t \in Range(tr) : comps'[t].buses = <<syn, S>>
          /\ Trail(comps', Len(buses'), Range(g), P, S)

\* C21: for a parallel group that contains a transformer, after the pass
\* the non-transformer devices form one series chain from the
\* transformer's original primary bus to the synthetic "<primary>_primary"
\* bus and the transformer joins that bus to its original secondary, so a
\* path between the two original buses passes through every device of the
\* group exactly once.
TransformerGroupBecomesOneChain ==
    [][(pc = "serializing" /\ gi < Len(groups)
            /\ Transformers(comps, CurrentGroup) # <<>>)
          => ChainedThroughTransformer(CurrentGroup)]_vars

\* The devices of group g all list their buses in the order of the first
\* transformer, and the group holds one transformer.
AlignedSingleTransformer(g) ==
    /\ Len(Transformers(comps, g)) = 1
    /\ \A c \in Range(g) : comps[c].buses = comps[Transformers(comps, g)[1]].buses

\* The chain of C21 is formed when the group has one transformer and all
\* its devices list their buses in the same order.
AlignedTransformerGroupBecomesOneChain ==
    [][(pc = "serializing" /\ gi < Len(groups)
            /\ Transformers(comps, CurrentGroup) # <<>>
            /\ AlignedSingleTransformer(CurrentGroup))
          => ChainedThroughTransformer(CurrentGroup)]_vars

\* ---------------------------------------------------------------------
\* Reader._sort_parallel_components applied to one parallel group
\* ---------------------------------------------------------------------

\* Display names of the devices of a group; <<"x", "0">> is "x_0".
GroupNames == {<<"x">>, <<"y">>, <<"x", "0">>}

GroupOptions ==
    {Comp(kd, nm, b0, b1, <<>>) :
        kd \in EdgeKinds, nm \in GroupNames, b0 \in {1, 2}, b1 \in {1, 2}}

\* The registry when the renaming loop has handled the first n components
\* of the group.
PartlyRenamed(cs, g, n) ==
    [c \in DOMAIN cs |->
        IF \E q \in 1..n : g[q] = c
        THEN [cs[c] EXCEPT !.name =
                 RenamedName(cs, g, CHOOSE q \in 1..n : g[q] = c)]
        ELSE cs[c]]

\* copy_component(comp, name=new_name, attach=True) for the n-th component
\* meets an attached component of the same type that has the new name.
AttachCollides(cs, g, n) ==
    LET cur == PartlyRenamed(cs, g, n - 1)
        new == RenamedName(cs, g, n)
    IN /\ new # cs[g[n]].name
       /\ \E d \in DOMAIN cur :
             cur[d].kind = cs[g[n]].kind /\ cur[d].name = new

RenInit ==
    /\ pc = "grouped"
    /\ buses = InitialBuses
    /\ comps \in {cs \in SeqsUpTo(GroupOptions, MaxComps) :
                     /\ WellFormedComps(cs)
                     /\ GetParallelComponents(cs, InitialBuses) # <<>>}
    /\ groups = GetParallelComponents(comps, buses)
    /\ gi = 0
    /\ VoltIdle
    /\ TruncIdle
    /\ ValIdle
    /\ CimIdle
    /\ QryIdle
    /\ ExtIdle

\* transformers, non_transformers = self._sort_parallel_components(comps)
SortParallelComponents ==
    /\ pc = "grouped"
    /\ LET g == groups[1]
           colliding == {n \in DOMAIN g : AttachCollides(comps, g, n)}
       IN \/ /\ comps' = RenameGroup(comps, g)
             /\ groups' = <<Transformers(comps', g), NonTransformers(comps', g)>>
             /\ pc' = "renamed"
          \/ /\ colliding # {}
             /\ LET n == CHOOSE k \in colliding : \A m \in colliding : k <= m
                IN comps' = PartlyRenamed(comps, g, n - 1)
             /\ pc' = "rename_raised"
             /\ UNCHANGED groups
    /\ UNCHANGED <<buses, gi, serOthers>>

\* The group's devices are handed to the chaining loops.
SortReturned ==
    /\ pc = "renamed"
    /\ pc' = "sorted"
    /\ gi' = 1
    /\ UNCHANGED <<buses, comps, groups, serOthers>>

RenNext == SortParallelComponents \/ SortReturned

SpecRename == RenInit /\ [][RenNext]_vars

\* The components of the group whose name no sibling has.
UniqueInGroup(cs) ==
    {c \in DOMAIN cs : \A d \in DOMAIN cs : cs[d].name = cs[c].name => d = c}

\* C22: when components of one parallel group share a display name the
\* renaming leaves all components of the group with pairwise different
\* names, and a component whose name was unique in the group keeps it.
RenamedGroupHasDistinctNames ==
    [][(pc = "grouped" /\ pc' = "renamed")
          => /\ \A c, d \in DOMAIN comps' :
                   comps'[c].name = comps'[d].name => c = d
             /\ \A c \in UniqueInGroup(comps) : comps'[c].name = comps[c].name]_vars

\* The renaming keeps every name that was unique in the group and gives
\* the components that shared a name pairwise different names.
RenamedGroupKeepsUniqueNames ==
    [][(pc = "grouped" /\ pc' = "renamed")
          => /\ \A c \in UniqueInGroup(comps) : comps'[c].name = comps[c].name
             /\ \A c, d \in (DOMAIN comps) \ UniqueInGroup(comps) :
                   comps'[c].name = comps'[d].name => c = d]_vars

\* ---------------------------------------------------------------------
\* WindingEquipmentMapper._build_winding: the tap fields
\* ---------------------------------------------------------------------
\* Tap steps are integers.  dv is held in thousandths of a percent
\* (0.625 % is 625) and a per-unit tap in units of 1/100000, so that
\* step * (dv / 100) + 1 is PerUnitOne + step * dv.

PerUnitOne == 100000

\* "mapping": the attribute and the default of each tap field.
TapDefaults == [normal_tap |-> 0, max_tap |-> 16, min_tap |-> -16, dv |-> 625]

TapFields == DOMAIN TapDefaults

\* A field of the row: not in the row, None, a number, or the text of a
\* number.
Absent == [in_row |-> FALSE]
NoneValue == [in_row |-> TRUE, type |-> "NoneType", value |-> 0]
Number(v) == [in_row |-> TRUE, type |-> "float", value |-> v]
NumberText(v) == [in_row |-> TRUE, type |-> "str", value |-> v]

\* bool(row[k]): None and a zero number are false, the text of a number
\* (also "0") is true.
Truthy(f) ==
    CASE f.type = "NoneType" -> FALSE
      [] f.type = "float" -> f.value # 0
      [] f.type = "str" -> TRUE

\* float(row[k]) of a number or of the text of a number.
Float(f) == f.value

\* The body of "for k, v in mapping.items()".
TapAttribute(row, k) ==
    IF row[k].in_row
    THEN IF Truthy(row[k]) THEN Float(row[k]) ELSE TapDefaults[k]
    ELSE TapDefaults[k]

\* The tap fields of the WindingEquipment _build_winding returns.
BuildWinding(row) ==
    LET normal_tap == TapAttribute(row, "normal_tap")
        max_tap == TapAttribute(row, "max_tap")
        min_tap == TapAttribute(row, "min_tap")
        dv == TapAttribute(row, "dv")
        pu_tap == normal_tap * dv + PerUnitOne
    IN [tap_positions |-> [p \in 1..row.n_phases |-> pu_tap],
        total_taps |-> max_tap - min_tap,
        min_tap_pu |-> min_tap * dv + PerUnitOne,
        max_tap_pu |-> max_tap * dv + PerUnitOne]

\* The values a tap field takes in the rows explored.
FieldValues(k) ==
    LET given == [normal_tap |-> 2, max_tap |-> 32, min_tap |-> -8, dv |-> 1250]
    IN {Absent, NoneValue, Number(0), NumberText(0), Number(given[k]),
        NumberText(given[k])}

WindingRows ==
    {[normal_tap |-> a, max_tap |-> b, min_tap |-> c, dv |-> d, n_phases |-> n] :
        a \in FieldValues("normal_tap"), b \in FieldValues("max_tap"),
        c \in FieldValues("min_tap"), d \in FieldValues("dv"), n \in {1, 3}}

WdInit ==
    /\ pc = "row_read"
    /\ winding_row \in WindingRows
    /\ winding = <<>>
    /\ CoreIdle
    /\ PhIdle
    /\ WrIdle
    /\ CvIdle
    /\ RdIdle

\* windings.append(self._build_winding(row[new_indices], row, i, row["xfmr"]))
BuildWindingOfRow ==
    /\ pc = "row_read"
    /\ winding' = BuildWinding(winding_row)
    /\ pc' = "winding_built"
    /\ UNCHANGED <<winding_row, wdOthers>>

WdNext == BuildWindingOfRow

SpecWinding == WdInit /\ [][WdNext]_vars

\* The winding's tap fields computed from the steps and dv given.
TapsFrom(normal, max, min, dv, n_phases) ==
    [tap_positions |-> [p \in 1..n_phases |-> PerUnitOne + normal * dv],
     total_taps |-> max - min,
     min_tap_pu |-> PerUnitOne + min * dv,
     max_tap_pu |-> PerUnitOne + max * dv]

\* The value of a field that is present (in the row, not None).
Present(f) == f.in_row /\ f.type # "NoneType"
ValueOrDefault(row, k) == IF Present(row[k]) THEN row[k].value ELSE TapDefaults[k]

\* C23: the per-unit taps of a winding are 1 + step * (dv/100) for the
\* normal, maximum and minimum steps and the total tap count is maximum
\* minus minimum step, every tap field present in the row being used with
\* the value given, a value of zero included, and the defaults normal=0,
\* max=16, min=-16, dv=0.625 only for fields that are absent.
WindingTapsUseEveryPresentField ==
    (pc = "winding_built") =>
        winding = TapsFrom(ValueOrDefault(winding_row, "normal_tap"),
                           ValueOrDefault(winding_row, "max_tap"),
                           ValueOrDefault(winding_row, "min_tap"),
                           ValueOrDefault(winding_row, "dv"),
                           winding_row.n_phases)

\* A number of zero counts as absent.
NonZeroOrDefault(row, k) ==
    IF Present(row[k]) /\ ~(row[k].type = "float" /\ row[k].value = 0)
    THEN row[k].value ELSE TapDefaults[k]

\* The taps follow the formulas of C23 when a field given as the number
\* zero is counted as absent.
WindingTapsUseEveryNonZeroField ==
    (pc = "winding_built") =>
        winding = TapsFrom(NonZeroOrDefault(winding_row, "normal_tap"),
                           NonZeroOrDefault(winding_row, "max_tap"),
                           NonZeroOrDefault(winding_row, "min_tap"),
                           NonZeroOrDefault(winding_row, "dv"),
                           winding_row.n_phases)

\* ---------------------------------------------------------------------
\* Further properties of _get_bus_coordinates
\* ---------------------------------------------------------------------

\* The bus table has been returned.
BusesQueried == Len(tables) >= 1 /\ tables[1].query = "query_distribution_buses"

\* The coordinate the bus table holds for the k-th node, "NaN" when none.
CoordinateOf(k) ==
    LET row == tables[1].rows[k]
    IN IF "xy" \in DOMAIN row THEN row.xy ELSE "NaN"

\* The coordinates resolved for the nodes other than the k-th.
ResolvedForOthers(k) ==
    {TheOne(CoordResult(graph.nodes[j]).result) :
        j \in {i \in DOMAIN graph.nodes : i # k /\ IsKnown(graph.nodes[i])}}

\* The candidates of the k-th node that are resolved for no other node.
RemainingCandidates(k) == CoordResult(graph.nodes[k]).result \ ResolvedForOthers(k)

WarnedAbout(k) ==
    [query |-> "query_distribution_buses", name |-> graph.nodes[k].node] \in warnings

\* C24: a node whose candidate coordinates are ambiguous is given a
\* coordinate only if exactly one candidate remains once the coordinates
\* resolved for other nodes are subtracted; otherwise it gets none and a
\* warning is logged; it is never given a coordinate resolved for another
\* node.
AmbiguousNodeResolvedOrWarned ==
    BusesQueried =>
        \A k \in DOMAIN graph.nodes :
            IsUnknown(graph.nodes[k]) =>
                IF Cardinality(RemainingCandidates(k)) = 1
                THEN CoordinateOf(k) = TheOne(RemainingCandidates(k))
                ELSE CoordinateOf(k) = "NaN" /\ WarnedAbout(k)

\* An ambiguous node that is given a coordinate is given one of its
\* candidates, after a resolved coordinate was subtracted from them.
AmbiguousNodeGivenACandidate ==
    BusesQueried =>
        \A k \in DOMAIN graph.nodes :
            (IsUnknown(graph.nodes[k]) /\ CoordinateOf(k) # "NaN")
                => /\ CoordinateOf(k) \in CoordResult(graph.nodes[k]).result
                   /\ ResolvedForOthers(k) \cap CoordResult(graph.nodes[k]).result # {}

\* ---------------------------------------------------------------------
\* Further properties of Reader.assign_bus_voltages
\* ---------------------------------------------------------------------

\* The queue name of the bus that comes first in the registry.
FirstQueued(bs, queue) ==
    bs[CHOOSE b \in DOMAIN bs :
          /\ bs[b].name \in queue
          /\ \A d \in DOMAIN bs : bs[d].name \in queue => b <= d].name

\* The buses left by the loop when every pop takes the queued bus that
\* comes first in the registry.
RECURSIVE PopAllFirstQueued(_, _, _, _, _)
PopAllFirstQueued(bs, cs, queue, obs_b, obs_c) ==
    IF queue = {} THEN bs
    ELSE LET st == PopAndVisit(bs, cs, queue, obs_b, obs_c, {}, FirstQueued(bs, queue))
         IN PopAllFirstQueued(st.buses, cs, st.queue, st.observed_buses,
                              st.observed_components)

\* The buses assign_bus_voltages leaves on the built system under that
\* removal order.
VoltagesFirstQueuedOrder ==
    LET r == StartQueue(InitialBuses, sources, 1, {})
    IN PopAllFirstQueued(r.buses, comps, r.queue, {}, {})

\* C25: the bus voltages left by assign_bus_voltages do not depend on the
\* order in which buses are taken from the work queue: every removal order
\* leaves the rated voltage and voltage type on every bus that the
\* first-queued order leaves.
VoltagesIndependentOfRemovalOrder ==
    (pc = "volt_done") =>
        \A b \in DOMAIN buses :
            /\ buses[b].rated_voltage = VoltagesFirstQueuedOrder[b].rated_voltage
            /\ buses[b].voltage_type = VoltagesFirstQueuedOrder[b].voltage_type

\* The components join the buses without a cycle: every component joins
\* two parts that the components before it leave apart.
Acyclic(cs) ==
    \A c \in DOMAIN cs :
        cs[c].buses[2] \notin
            ReachFrom([k \in 1..(c - 1) |-> cs[k]], {cs[c].buses[1]})

\* With one source, distinct component names and no cycle the removal
\* order does not change the voltages.
VoltagesIndependentOfRemovalOrderInTree ==
    (/\ pc = "volt_done"
     /\ Len(sources) = 1
     /\ Acyclic(comps)
     /\ \A c, d \in DOMAIN comps : comps[c].name = comps[d].name => c = d)
        => \A b \in DOMAIN buses :
              /\ buses[b].rated_voltage = VoltagesFirstQueuedOrder[b].rated_voltage
              /\ buses[b].voltage_type = VoltagesFirstQueuedOrder[b].voltage_type

\* Specification SpecVoltFair: the interpreter runs the pass to its end,
\* every statement that can execute does.
\* Branches in one listing order and step-down transformers in both, on
\* systems whose sources are all three-phase.
MeshEdgeOptions ==
    {c \in VoltEdgeOptions :
        /\ c.kind # Switch
        /\ c.kind = Xfmr => (c.name = <<"x">> /\ c.windings = <<HighSide, LowSide>>)}

VoltFairInit ==
    /\ pc = "built"
    /\ buses = InitialBuses
    /\ comps \in {cs \in SeqsUpTo(MeshEdgeOptions, MaxVoltComps) : WellFormedComps(cs)}
    /\ sources \in {ss \in SourceOptions : \A k \in DOMAIN ss : ss[k].nphases > 1}
    /\ bus_queue = {}
    /\ observed_buses = {}
    /\ observed_components = {}
    /\ crossings = {}
    /\ retaken = {}
    /\ late_assignments = {}
    /\ SerIdle
    /\ TruncIdle
    /\ ValIdle
    /\ CimIdle
    /\ QryIdle
    /\ ExtIdle

SpecVoltFair == VoltFairInit /\ [][VoltNext]_vars /\ WF_vars(VoltNext)

\* C26: assign_bus_voltages terminates on every finite system, meshed
\* networks and several sources included: once the loop is entered the
\* work queue eventually becomes empty and the pass returns.
AssignBusVoltagesTerminates ==
    (pc = "propagating") ~> (bus_queue = {} /\ pc = "volt_done")

\* C26 witness: the pass has returned on a meshed system with two sources
\* after every bus was taken from the queue.
TerminatedOnMeshWithTwoSources ==
    /\ pc = "volt_done"
    /\ Len(sources) = 2
    /\ ~Acyclic(comps)
    /\ observed_buses = {buses[b].name : b \in DOMAIN buses}

\* ---------------------------------------------------------------------
\* serialize_parallel_branches on systems with several parallel groups
\* ---------------------------------------------------------------------

\* The bus pairs of the three buses; the devices on the k-th pair are all
\* named by the k-th name.
BusPairs == <<<<1, 2>>, <<1, 3>>, <<2, 3>>>>
PairNames == <<<<"x">>, <<"y">>, <<"z">>>>

\* The devices one bus pair can hold: none, or devices of two or three
\* kinds, each listing the two buses in either order.
RECURSIVE DevicesOfKinds(_, _)
DevicesOfKinds(k, kinds) ==
    IF kinds = <<>> THEN {<<>>}
    ELSE {<<Comp(kinds[1], PairNames[k], ends[1], ends[2], <<>>)>> \o rest :
             ends \in {BusPairs[k], <<BusPairs[k][2], BusPairs[k][1]>>},
             rest \in DevicesOfKinds(k, Tail(kinds))}

PairOptions(k) ==
    {<<>>} \cup UNION {DevicesOfKinds(k, kinds) :
                          kinds \in {<<Branch, Switch>>, <<Xfmr, Switch>>,
                                     <<Branch, Xfmr>>, <<Branch, Switch, Xfmr>>}}

SerGroupsInit ==
    /\ pc = "built"
    /\ buses = InitialBuses
    /\ comps \in {a \o b \o c :
                     a \in PairOptions(1), b \in PairOptions(2), c \in PairOptions(3)}
    /\ SerIdle
    /\ VoltIdle
    /\ TruncIdle
    /\ ValIdle
    /\ CimIdle
    /\ QryIdle
    /\ ExtIdle

SpecSerializeGroups == SerGroupsInit /\ [][SerNext]_vars

\* C27: every synthetic bus created by serialize_parallel_branches has a
\* name different from the name of every other bus of the system,
\* original or synthetic, for any number of parallel groups, groups that
\* share an endpoint bus included.
SyntheticBusNamesAreUnique ==
    \A b, d \in DOMAIN buses :
        (b > NumBuses /\ b # d) => buses[b].name # buses[d].name

\* The synthetic bus names are unique when no group holds a transformer.
SyntheticBusNamesAreUniqueWithoutTransformers ==
    (\A c \in DOMAIN comps : comps[c].kind # Xfmr) => SyntheticBusNamesAreUnique

\* ---------------------------------------------------------------------
\* Further properties of the re-validation of a CYME read
\* ---------------------------------------------------------------------

\* C28: the validation failure of a Reader run reflects only the
\* components of that run: a run over a model with no invalid component
\* succeeds, also when another Reader of the process collected validation
\* errors earlier.
RunOverValidModelSucceeds ==
    (/\ pc \in {"validated", "validation_raised"}
     /\ \A c \in DOMAIN comps : nerrors[c] = 0)
        => pc = "validated"

\* The first Reader of a process succeeds on a model with no invalid
\* component.
FirstRunOverValidModelSucceeds ==
    (/\ pc \in {"validated", "validation_raised"}
     /\ run = 1
     /\ \A c \in DOMAIN comps : nerrors[c] = 0)
        => pc = "validated"

\* ---------------------------------------------------------------------
\* The identifiers of one written document
\* ---------------------------------------------------------------------

\* Component names, "X_power" among them.
IdNames == {"X", "y", "X_power"}

\* A component of each supported kind under each name, on its first bus
\* list.
IdComponents ==
    {[kind |-> kind, name |-> name,
      buses |-> IF kind \in SingleBusKinds THEN <<"b1">> ELSE <<"b1", "b2">>,
      substation |-> None, feeder |-> Text(<<"f1">>)] :
        kind \in SUPPORTED_COMPONENT_TYPES \ {Bus}, name \in IdNames}

\* Systems of three buses and up to MaxWriteComps components whose names
\* are unique within each kind, the components of a type listed together.
IdSystems ==
    {<<WriterBus("b1", Text(<<"f1">>)), WriterBus("b2", Text(<<"f1">>)),
       WriterBus("b3", Text(<<"f1">>))>> \o cs :
        cs \in {s \in SeqsUpTo(IdComponents, MaxWriteComps) :
                  \A k \in DOMAIN s : \A j \in 1..(k - 1) :
                     /\ TypeRank(s[j].kind) <= TypeRank(s[k].kind)
                     /\ (s[j].kind = s[k].kind => s[j].name # s[k].name)}}

WrIdsInit ==
    /\ pc = "write_ready"
    /\ wsystem \in IdSystems
    /\ woptions \in {o \in WriteOptions :
                        o.output_mode = "single"
                        \/ (o.separate_feeders /\ o.separate_substations)}
    /\ written = NothingWritten
    /\ rewritten = NothingWritten
    /\ read_names = <<>>
    /\ CoreIdle
    /\ WdIdle
    /\ RdIdle
    /\ PhIdle
    /\ CvIdle

SpecWriteIds == WrIdsInit /\ [][WrNext]_vars

\* No two elements of the document carry the same identifier.
DistinctIdentifiers(doc) ==
    \A i, j \in DOMAIN doc.elements :
        doc.elements[i].id = doc.elements[j].id => i = j

\* C29: within one document written by the CIM writer no two emitted
\* elements carry the same identifier, for any system whose component
\* names are unique within each component kind.
NoTwoElementsShareAnIdentifier ==
    \A k \in DOMAIN written.files : DistinctIdentifiers(written.files[k])

\* The identifiers of a document are distinct when the system holds no
\* regulator.
NoTwoElementsShareAnIdentifierWithoutRegulator ==
    (\A c \in Range(wsystem) : c.kind # Regulator)
        => \A k \in DOMAIN written.files : DistinctIdentifiers(written.files[k])

\* ---------------------------------------------------------------------
\* Package mode against single mode
\* ---------------------------------------------------------------------

\* The document single mode writes for the system.
SingleDocument ==
    Write(wsystem, [output_mode |-> "single", separate_substations |-> TRUE,
                    separate_feeders |-> TRUE, separate_equipment_types |-> TRUE]).files[1]

\* Every component single mode emits is emitted in a file of the package.
PackageHoldsEverySingleComponent ==
    \A c \in WrittenEquipment :
        EmittedFor(c, SingleDocument)
            => \E k \in DOMAIN written.files : EmittedFor(c, written.files[k])

\* C30: package mode loses no component: every component that single mode
\* emits for a system is emitted in at least one file of the package
\* written for the same system, for every combination of the substation,
\* feeder and component-kind split options.
PackageModeLosesNoComponent ==
    (pc = "written" /\ woptions.output_mode = "package")
        => PackageHoldsEverySingleComponent

\* A package that is split neither by substation nor by feeder holds
\* every component single mode emits.
UnsplitPackageLosesNoComponent ==
    (/\ pc = "written"
     /\ woptions.output_mode = "package"
     /\ ~woptions.separate_substations
     /\ ~woptions.separate_feeders)
        => PackageHoldsEverySingleComponent

====
